---- MODULE Spec2Model ----
(***************************************************************************)
(* Model of the deck-construction engine of backend/services/              *)
(* deck_builder.py: DeckConstruction.add_card, score_card, the selection   *)
(* loop and the land phase of build_deck, and _generate_basic_land_base.   *)
(*                                                                         *)
(* Python dicts keep insertion order, and the code depends on it (ties in  *)
(* the selection loop, ties of max/min in the land reconciliation), so     *)
(* every dict is a sequence of entries in insertion order.                 *)
(* Scores are rationals whose denominator divides 2 * (product of the      *)
(* positive role targets); they are kept as integers scaled by that        *)
(* factor (ScoreScale), which preserves every comparison the code makes.   *)
(***************************************************************************)
EXTENDS Integers, Sequences, FiniteSets, TLC

\* Longest filtered pool (buildable_pool) that is enumerated.
MaxPool == 2
\* Largest lands_to_add handed to _generate_basic_land_base on its own.
MaxLands == 4

\* target_deck_size and the copy limit, per format.
CommanderDeckSize == 100
DefaultDeckSize == 60
CommanderCopyLimit == 1
DefaultCopyLimit == 4
\* DeckSpec defaults of the role targets that are not varied.
DefaultTargetRamp == 10
DefaultTargetDraw == 8
DefaultTargetBoardWipes == 2

None == "<None>"

Formats == {"commander", "modern"}
Colors == {"W", "U", "B", "R", "G"}
Roles == {"removal", "ramp", "draw", "threat", "board_wipe", "land", "synergy"}
BasicTypes == {"plains", "island", "swamp", "mountain", "forest"}

\* Owned quantities that are enumerated: below, at and above the copy limits.
Quantities == {1, 3, 5}

(***************************************************************************)
(* The card data a pool entry carries besides its owned quantity.  The     *)
(* type line is its lower-cased words, the mana cost the sequence of its   *)
(* {..} symbols (empty: no mana cost).                                     *)
(***************************************************************************)
ScryfallCardCache ==
  [n \in {"Bear", "Bolt", "Colossus", "Keep", "Wastes", "Forest", "Shade", "Edict",
         "Opt", "Restoration"} |->
    CASE n = "Bear" ->
           [type_line |-> <<"creature">>, mana_cost |-> <<"1", "G">>,
            mana_value |-> 2, color_identity |-> {"G"}, roles |-> {"threat"}]
      [] n = "Bolt" ->
           [type_line |-> <<"instant">>, mana_cost |-> <<"R">>,
            mana_value |-> 1, color_identity |-> {"R"}, roles |-> {"removal"}]
      [] n = "Colossus" ->
           [type_line |-> <<"artifact", "creature">>, mana_cost |-> <<"12">>,
            mana_value |-> 12, color_identity |-> {}, roles |-> {"threat"}]
      [] n = "Keep" ->
           [type_line |-> <<"land">>, mana_cost |-> <<>>,
            mana_value |-> 0, color_identity |-> {}, roles |-> {"land", "ramp"}]
      [] n = "Wastes" ->
           [type_line |-> <<"basic", "land">>, mana_cost |-> <<>>,
            mana_value |-> 0, color_identity |-> {}, roles |-> {"land", "ramp"}]
      [] n = "Forest" ->
           [type_line |-> <<"basic", "land", "forest">>, mana_cost |-> <<>>,
            mana_value |-> 0, color_identity |-> {"G"}, roles |-> {"land", "ramp"}]
      [] n = "Shade" ->
           [type_line |-> <<"creature">>, mana_cost |-> <<>>,
            mana_value |-> 0, color_identity |-> {"B"}, roles |-> {"threat"}]
      [] n = "Edict" ->
           [type_line |-> <<"instant">>, mana_cost |-> <<"W", "W", "B">>,
            mana_value |-> 3, color_identity |-> {"W", "B"}, roles |-> {"removal"}]
      [] n = "Opt" ->
           [type_line |-> <<"instant">>, mana_cost |-> <<"U">>,
            mana_value |-> 1, color_identity |-> {"U"}, roles |-> {"draw"}]
      [] n = "Restoration" ->
           [type_line |-> <<"sorcery", "//", "land">>, mana_cost |-> <<"4", "U", "U", "U">>,
            mana_value |-> 7, color_identity |-> {"U"}, roles |-> {"draw", "land"}]]

CardNames == DOMAIN ScryfallCardCache

AnalyzedCard(n, q) ==
  [name |-> n, quantity |-> q,
   type_line |-> ScryfallCardCache[n].type_line,
   mana_cost |-> ScryfallCardCache[n].mana_cost,
   mana_value |-> ScryfallCardCache[n].mana_value,
   roles |-> ScryfallCardCache[n].roles]

VARIABLES
  collection,       \* the owned (UserCard, ScryfallCardCache) rows, in query order
  spec,             \* the DeckSpec of the build
  pool,             \* buildable_pool: the filtered pool, in input order
  main_deck,        \* DeckConstruction.main_deck, entries in insertion order
  role_counts,      \* DeckConstruction.role_counts
  pc,               \* position in build_deck
  idx,              \* position of the land-phase loop in buildable_pool, and of the
                    \* row loop of process_collection_csv in rows
  lands_in_deck,    \* names recorded by land phase part 1, in order
  basic_land_base,  \* the mapping _generate_basic_land_base returned (empty: not called)
  lands_to_add,     \* the lands_to_add it was called with
  ret,              \* what the last add_card call returned: "True", "False", or None
  iterations,       \* iterations of the selection loop that chose a card, so far
  message,          \* the returned Decklist besides main_deck: its message (text,
                    \* stated card count, warning) and sideboard (text None: not built yet)
  analyzed_card,    \* the AnalyzedCard handed to analyze_card_roles, with the roles it got
  lands_diff,       \* lands_diff of the reconciliation loop of _generate_basic_land_base
  file,             \* the UploadFile: its filename and what reading it gives
  rows,             \* rows of process_collection_csv, each by the way its processing goes
  cards_to_add,     \* cards_to_add, each UserCard by the number of its row
  failures,         \* failures, each message by its row number and kind
  result,           \* the IngestionResult process_collection_csv returned
  response          \* what /collections/upload answers (status 0: nothing yet)

vars == <<collection, spec, pool, main_deck, role_counts, pc, idx, lands_in_deck,
          basic_land_base, lands_to_add, ret, iterations, message, analyzed_card, lands_diff,
          file, rows, cards_to_add, failures, result, response>>

----------------------------------------------------------------------------
\* Helpers on ordered dicts (sequences of [name, qty] entries).

RECURSIVE SumQty(_)
SumQty(d) == IF d = <<>> THEN 0 ELSE d[1].qty + SumQty(Tail(d))

Keys(d) == {d[k].name : k \in 1..Len(d)}

Get(d, n, default) ==
  IF n \in Keys(d) THEN d[CHOOSE k \in 1..Len(d) : d[k].name = n].qty
  ELSE default

\* d[n] = q: an existing key keeps its position, a new key goes last.
Put(d, n, q) ==
  IF n \in Keys(d)
  THEN [k \in 1..Len(d) |-> IF d[k].name = n THEN [name |-> n, qty |-> q] ELSE d[k]]
  ELSE Append(d, [name |-> n, qty |-> q])

\* dict.update(other)
RECURSIVE Update(_, _)
Update(d, other) ==
  IF other = <<>> THEN d
  ELSE Update(Put(d, other[1].name, other[1].qty), Tail(other))

----------------------------------------------------------------------------
\* DeckConstruction

total_cards(deck) == SumQty(deck)

\* available_pool = {c.name: c for c in initial_pool}
InAvailablePool(n) == \E k \in 1..Len(pool) : pool[k].name = n
AvailableCard(n) == pool[CHOOSE k \in 1..Len(pool) : pool[k].name = n]

\* Mutant: the format is compared without regard to case.
AddCardLimit_IgnoresCase ==
  IF spec.format \in {"commander", "Commander"} THEN CommanderCopyLimit ELSE DefaultCopyLimit

\* limit = 1 if self.spec.format == "commander" else 4, in add_card
AddCardLimit == IF spec.format = "commander" THEN CommanderCopyLimit ELSE DefaultCopyLimit

\* Mutant: the owned quantity is not checked.
AddCardRefuses_NoOwnedCheck(n) ==
  \/ ~InAvailablePool(n)
  \/ Get(main_deck, n, 0) >= AddCardLimit

\* The two early returns of add_card.
AddCardRefuses(n) ==
  \/ ~InAvailablePool(n)
  \/ Get(main_deck, n, 0) >= AddCardLimit
  \/ Get(main_deck, n, 0) >= AvailableCard(n).quantity

\* Mutant: every owned copy is put in at once.
AddCardDeck_AllCopies(n) ==
  IF AddCardRefuses(n) THEN main_deck
  ELSE Put(main_deck, n, Get(main_deck, n, 0) + AvailableCard(n).quantity)

\* add_card(card_name): the new main_deck, role_counts and the return value.
AddCardDeck(n) ==
  IF AddCardRefuses(n) THEN main_deck
  ELSE Put(main_deck, n, Get(main_deck, n, 0) + 1)

\* Mutant: the roles are counted before the early returns.
AddCardRoleCounts_CountsRefused(n) ==
  IF ~InAvailablePool(n) THEN role_counts
  ELSE [r \in Roles |->
          IF r \in AvailableCard(n).roles THEN role_counts[r] + 1 ELSE role_counts[r]]

\* Mutant: the roles are counted for the first copy of a card only.
AddCardRoleCounts_OnlyFirstCopy(n) ==
  IF AddCardRefuses(n) \/ n \in Keys(main_deck) THEN role_counts
  ELSE [r \in Roles |->
          IF r \in AvailableCard(n).roles THEN role_counts[r] + 1 ELSE role_counts[r]]

AddCardRoleCounts(n) ==
  IF AddCardRefuses(n) THEN role_counts
  ELSE [r \in Roles |->
          IF r \in AvailableCard(n).roles THEN role_counts[r] + 1 ELSE role_counts[r]]

add_card(n) ==
  /\ main_deck' = AddCardDeck(n)
  /\ role_counts' = AddCardRoleCounts(n)
  /\ ret' = IF AddCardRefuses(n) THEN "False" ELSE "True"

----------------------------------------------------------------------------
\* score_card

TargetOrOne(t) == IF t > 0 THEN t ELSE 1

\* Common denominator of every count/target quotient of the build's spec.
ScoreDen ==
  TargetOrOne(spec.target_removal) * TargetOrOne(spec.target_ramp)
    * TargetOrOne(spec.target_draw) * TargetOrOne(spec.target_creatures)
    * TargetOrOne(spec.target_board_wipes)

\* Scores are carried multiplied by ScoreScale (the 0.5 of the penalty gives the 2).
ScoreScale == 2 * ScoreDen

role_targets ==
  [r \in {"removal", "ramp", "draw", "threat", "board_wipe"} |->
     CASE r = "removal" -> spec.target_removal
       [] r = "ramp" -> spec.target_ramp
       [] r = "draw" -> spec.target_draw
       [] r = "threat" -> spec.target_creatures
       [] r = "board_wipe" -> spec.target_board_wipes]

\* Mutant: a count that has reached its target still earns the (zero) bonus.
BelowTarget_OrEqual(r) == role_counts[r] <= role_targets[r]

\* if current_count < target_count
BelowTarget(r) == role_counts[r] < role_targets[r]

\* The roles of the card for which current_count / target_count is evaluated.
Divisions(card) == {r \in card.roles \cap DOMAIN role_targets : BelowTarget(r)}

\* score_card raises ZeroDivisionError: one of its divisions is by a target of 0.
ScoreRaises(card) == \E r \in Divisions(card) : role_targets[r] = 0

\* 10 * (1 - current_count / target_count), scaled; 0 when the role has no
\* target, or the count is not below it.  (Where the division is by 0 the
\* call raises and there is no score: see ScoreRaises.)
RoleBonus(card, r) ==
  IF /\ r \in card.roles
     /\ r \in DOMAIN role_targets
     /\ BelowTarget(r)
     /\ role_targets[r] # 0
  THEN 20 * (ScoreDen \div role_targets[r]) * (role_targets[r] - role_counts[r])
  ELSE 0

\* Mutant: the penalty is applied without the mana_value > 5 test.
ManaPenalty_NoThreshold(card) == (card.mana_value - 5) * ScoreDen

\* (mana_value - 5) * 0.5 when mana_value > 5, scaled.
ManaPenalty(card) ==
  IF card.mana_value > 5 THEN (card.mana_value - 5) * ScoreDen ELSE 0

score_card(card) ==
  ScoreScale
    + RoleBonus(card, "removal") + RoleBonus(card, "ramp") + RoleBonus(card, "draw")
    + RoleBonus(card, "threat") + RoleBonus(card, "board_wipe")
    + RoleBonus(card, "land") + RoleBonus(card, "synergy")
    - ManaPenalty(card)

----------------------------------------------------------------------------
\* build_deck: the non-land selection loop

target_deck_size ==
  IF spec.format = "commander" THEN CommanderDeckSize ELSE DefaultDeckSize

non_land_target == target_deck_size - spec.target_lands

\* Mutant: the loop allows four copies in every format.
LoopLimit_AlwaysFour == DefaultCopyLimit

\* limit = 1 if spec.format == "commander" else 4, in the loop
LoopLimit == IF spec.format = "commander" THEN CommanderCopyLimit ELSE DefaultCopyLimit

\* Mutant: the loop's test leaves out the owned quantity.
Addable_IgnoresOwned(card) == Get(main_deck, card.name, 0) < LoopLimit

\* Mutant: a card whose role has reached its target is no longer addable.
Addable_WithinRoleTargets(card) ==
  /\ Get(main_deck, card.name, 0) < card.quantity
  /\ Get(main_deck, card.name, 0) < LoopLimit
  /\ \A r \in card.roles \cap DOMAIN role_targets : role_counts[r] < role_targets[r]

\* The loop's own addability test.
Addable(card) ==
  /\ Get(main_deck, card.name, 0) < card.quantity
  /\ Get(main_deck, card.name, 0) < LoopLimit

\* best_score = -1.0
InitialBestScore == 0 - ScoreScale

\* Mutant: a later card of equal score replaces the best one.
Beats_OrEqual(current_score, best_score) == current_score >= best_score

\* if current_score > best_score
Beats(current_score, best_score) == current_score > best_score

\* In place of a card name: the exception that left the for loop.
ZeroDivisionError == "<ZeroDivisionError>"

\* The for loop over available_pool, from position k on: the name of the best
\* card, None, or ZeroDivisionError if a score_card call raised.
RECURSIVE BestFrom(_, _, _)
BestFrom(k, best_name, best_score) ==
  IF k > Len(pool) THEN best_name
  ELSE IF Addable(pool[k]) /\ "land" \notin pool[k].roles
       THEN IF ScoreRaises(pool[k]) THEN ZeroDivisionError
            ELSE IF Beats(score_card(pool[k]), best_score)
                 THEN BestFrom(k + 1, pool[k].name, score_card(pool[k]))
                 ELSE BestFrom(k + 1, best_name, best_score)
       ELSE BestFrom(k + 1, best_name, best_score)

best_card_name == BestFrom(1, None, InitialBestScore)

----------------------------------------------------------------------------
\* _generate_basic_land_base

Upper(s) ==
  CASE s = "w" -> "W" [] s = "u" -> "U" [] s = "b" -> "B"
    [] s = "r" -> "R" [] s = "g" -> "G" [] OTHER -> s

land_map ==
  [c \in Colors |->
     CASE c = "W" -> "Plains" [] c = "U" -> "Island" [] c = "B" -> "Swamp"
       [] c = "R" -> "Mountain" [] c = "G" -> "Forest"]

\* pip_counts[symbol.upper()] += qty for every symbol re.findall returns.
RECURSIVE AddPips(_, _, _)
AddPips(pips, symbols, qty) ==
  IF symbols = <<>> THEN pips
  ELSE IF Upper(symbols[1]) \in Colors
       THEN AddPips(Put(pips, Upper(symbols[1]), Get(pips, Upper(symbols[1]), 0) + qty),
                    Tail(symbols), qty)
       ELSE AddPips(pips, Tail(symbols), qty)

\* Whether the entry of main_deck contributes to the pip counts.
CountsPips(n) == InAvailablePool(n) /\ AvailableCard(n).mana_cost # <<>>

RECURSIVE PipCountsFrom(_, _)
PipCountsFrom(deck, pips) ==
  IF deck = <<>> THEN pips
  ELSE IF CountsPips(deck[1].name)
       THEN PipCountsFrom(Tail(deck),
                          AddPips(pips, AvailableCard(deck[1].name).mana_cost, deck[1].qty))
       ELSE PipCountsFrom(Tail(deck), pips)

pip_counts(deck) == PipCountsFrom(deck, <<>>)

\* round(n / d) as Python rounds: to nearest, a tie to the even neighbour.
Round(n, d) ==
  LET q == n \div d
      r == n % d
  IN  IF 2 * r < d THEN q
      ELSE IF 2 * r > d THEN q + 1
      ELSE IF q % 2 = 0 THEN q ELSE q + 1

\* Mutant: the lands are shared out equally among the colours with pips.
Allocation_EqualShares(pips, n) ==
  [k \in 1..Len(pips) |->
     [name |-> land_map[pips[k].name],
      qty |-> Round(n, Len(pips))]]

\* num_lands = round(lands_to_add * (count / total_pips)) per colour with pips.
Allocation(pips, n) ==
  [k \in 1..Len(pips) |->
     [name |-> land_map[pips[k].name],
      qty |-> Round(n * pips[k].qty, SumQty(pips))]]

\* max(pip_counts, key=pip_counts.get): the first colour with the largest count.
most_needed_color(pips) ==
  pips[CHOOSE k \in 1..Len(pips) :
         /\ \A j \in 1..Len(pips) : pips[j].qty <= pips[k].qty
         /\ \A j \in 1..(k - 1) : pips[j].qty < pips[k].qty].name

\* The colours that still have a land to give up.
Removable(land_base, pips) ==
  {k \in 1..Len(pips) : Get(land_base, land_map[pips[k].name], 0) > 0}

\* min(..., key=pip_counts.get): the first of them with the smallest count.
least_needed_color(land_base, pips) ==
  pips[CHOOSE k \in Removable(land_base, pips) :
         /\ \A j \in Removable(land_base, pips) : pips[k].qty <= pips[j].qty
         /\ \A j \in Removable(land_base, pips) : j < k => pips[k].qty < pips[j].qty].name

\* Mutant: a surplus of the rounded allocation is left in place.
RECURSIVE Reconcile_NoRemoval(_, _, _)
Reconcile_NoRemoval(land_base, pips, diff) ==
  IF diff > 0
  THEN Reconcile_NoRemoval(Put(land_base, land_map[most_needed_color(pips)],
                               Get(land_base, land_map[most_needed_color(pips)], 0) + 1),
                           pips, diff - 1)
  ELSE land_base

\* The while lands_diff != 0 loop.
RECURSIVE Reconcile(_, _, _)
Reconcile(land_base, pips, diff) ==
  IF diff = 0 THEN land_base
  ELSE IF diff > 0
       THEN Reconcile(Put(land_base, land_map[most_needed_color(pips)],
                          Get(land_base, land_map[most_needed_color(pips)], 0) + 1),
                      pips, diff - 1)
       ELSE IF (\E k \in 1..Len(land_base) : land_base[k].qty # 0)
               /\ Removable(land_base, pips) # {}
            THEN Reconcile(Put(land_base, land_map[least_needed_color(land_base, pips)],
                               Get(land_base, land_map[least_needed_color(land_base, pips)], 0) - 1),
                           pips, diff + 1)
            ELSE land_base

\* Mutant: the fallback gives Wastes whatever the colour identity.
ZeroPipFallback_AlwaysWastes(n) == {<<[name |-> "Wastes", qty |-> n]>>}

\* The branch taken when total_pips == 0.  list(set)[0] is whichever colour
\* the set's hash order puts first: any colour of the identity.
ZeroPipFallback(n) ==
  IF spec.color_identity # {}
  THEN {<<[name |-> land_map[c], qty |-> n]>> : c \in spec.color_identity \cap DOMAIN land_map}
  ELSE {<<[name |-> "Wastes", qty |-> n]>>}

\* land_map[primary_color] raises KeyError: the colour picked has no entry.
FallbackRaises == \E c \in spec.color_identity : c \notin DOMAIN land_map

ProportionalLandBase(pips, n) ==
  Reconcile(Allocation(pips, n), pips, n - SumQty(Allocation(pips, n)))

\* Every mapping _generate_basic_land_base(deck, pool, n) can return.
generate_basic_land_base(deck, n) ==
  IF SumQty(pip_counts(deck)) = 0
  THEN ZeroPipFallback(n)
  ELSE {ProportionalLandBase(pip_counts(deck), n)}

\* Every way the call can end: a returned mapping, or the KeyError.
GenerateOutcomes(deck, n) ==
  {[raised |-> FALSE, base |-> b] : b \in generate_basic_land_base(deck, n)}
    \cup (IF SumQty(pip_counts(deck)) = 0 /\ FallbackRaises
          THEN {[raised |-> TRUE, base |-> <<>>]}
          ELSE {})

----------------------------------------------------------------------------
\* The inputs: specs and filtered pools.

DeckSizeOf(f) == IF f = "commander" THEN CommanderDeckSize ELSE DefaultDeckSize

\* Land targets: none, a few, all but two cards of the deck, one more than the deck.
TargetLandsFor(f) == {0, 3, DeckSizeOf(f) - 2, DeckSizeOf(f) + 1}

Identities == {{}, {"G", "R"}}

\* ... and with the default identity of DeckSpec.
AllIdentities == Identities \cup {{"W", "B"}}

DeckSpec(f, ci, tc, tl) ==
  [format |-> f, color_identity |-> ci,
   target_creatures |-> tc, target_removal |-> 1,
   target_ramp |-> DefaultTargetRamp, target_draw |-> DefaultTargetDraw,
   target_board_wipes |-> DefaultTargetBoardWipes, target_lands |-> tl]

\* A spec that asks for one creature and nothing else: every other target 0.
OneCreatureSpec ==
  [DeckSpec("modern", {"W", "B"}, 1, 0) EXCEPT
     !.target_removal = 0, !.target_ramp = 0, !.target_draw = 0, !.target_board_wipes = 0]

\* A spec that asks for a single land.
OneLandSpec == DeckSpec("modern", {"G", "R"}, 2, 1)

SpecSet ==
  UNION {{DeckSpec(f, ci, tc, tl) : ci \in Identities, tc \in {0, 2}, tl \in TargetLandsFor(f)}
           : f \in Formats}
    \cup {OneCreatureSpec, OneLandSpec}

\* get_buildable_cards keeps the cards whose colour identity is within the spec's.
Buildable(ci) ==
  {AnalyzedCard(n, q) : n \in {m \in CardNames : ScryfallCardCache[m].color_identity \subseteq ci},
                        q \in Quantities}

PoolsOfLen(k, ci) ==
  {p \in [1..k -> Buildable(ci)] : \A i, j \in 1..k : i # j => p[i].name # p[j].name}

Pools(ci, maxlen) == UNION {PoolsOfLen(k, ci) : k \in 0..maxlen}

\* A row of the join of UserCard with ScryfallCardCache, as far as
\* get_buildable_cards reads it; legalities maps format names to a status.
OwnedRow(n, q, legalities) ==
  [name |-> n, quantity |-> q, legalities |-> legalities,
   color_identity |-> ScryfallCardCache[n].color_identity]

\* A collection that get_buildable_cards filters to the pool p: its cards,
\* legal in every format.
CollectionOf(p) ==
  [k \in 1..Len(p) |-> OwnedRow(p[k].name, p[k].quantity, [f \in Formats |-> "legal"])]

NoRoleCounts == [r \in Roles |-> 0]

NoMessage == [text |-> None, cards |-> 0, warning |-> FALSE, sideboard |-> <<>>]

\* No card is being analyzed, no CSV processed, nothing answered.
NoCard == [type_line |-> <<>>, oracle_text |-> <<>>, roles |-> <<>>]

NoResult ==
  [collection_id |-> None, total_rows |-> 0, successful_rows |-> 0, failed_rows |-> 0,
   failures |-> <<>>]

NoResponse == [status |-> 0, detail |-> <<>>]

NoFile == [filename |-> None, readable |-> FALSE, rows |-> <<>>]

----------------------------------------------------------------------------
\* build_deck, step by step

Init ==
  /\ spec \in SpecSet
  /\ pool \in Pools(spec.color_identity, MaxPool)
  /\ collection = CollectionOf(pool)
  /\ main_deck = <<>>
  /\ role_counts = NoRoleCounts
  /\ pc = "start"
  /\ idx = 1
  /\ lands_in_deck = <<>>
  /\ basic_land_base = <<>>
  /\ lands_to_add = 0
  /\ ret = None
  /\ iterations = 0
  /\ analyzed_card = NoCard
  /\ lands_diff = 0
  /\ rows = <<>>
  /\ result = NoResult
  /\ response = NoResponse
  /\ file = NoFile
  /\ cards_to_add = <<>>
  /\ failures = <<>>
  /\ message = NoMessage

\* Mutant: the early return is missing, the empty pool goes on to the build.
EmptyPool_NoEarlyReturn ==
  /\ pc = "start"
  /\ pool = <<>>
  /\ pc' = "select"
  /\ UNCHANGED <<analyzed_card, lands_diff, file, rows, cards_to_add, failures,
                 result, response, iterations, collection, spec, pool, main_deck, role_counts, idx, lands_in_deck,
                 basic_land_base, lands_to_add, ret, message>>

\* if not buildable_pool: return Decklist(..., "No buildable cards found.")
EmptyPool ==
  /\ pc = "start"
  /\ pool = <<>>
  /\ message' = [text |-> "No buildable cards found.", cards |-> 0, warning |-> FALSE,
                 sideboard |-> <<>>]
  /\ pc' = "done"
  /\ UNCHANGED <<analyzed_card, lands_diff, file, rows, cards_to_add, failures,
                 result, response, iterations, collection, spec, pool, main_deck, role_counts, idx, lands_in_deck,
                 basic_land_base, lands_to_add, ret>>

\* deck = DeckConstruction(spec, buildable_pool)
CreateDeck ==
  /\ pc = "start"
  /\ pool # <<>>
  /\ main_deck' = <<>>
  /\ role_counts' = NoRoleCounts
  /\ pc' = "select"
  /\ UNCHANGED <<analyzed_card, lands_diff, file, rows, cards_to_add, failures,
                 result, response, iterations, collection, spec, pool, idx, lands_in_deck, basic_land_base, lands_to_add,
                 ret, message>>

\* One iteration of the while loop that finds a best card and adds it, or
\* that a raising score_card call ends, the exception leaving build_deck.
SelectCard ==
  /\ pc = "select"
  /\ total_cards(main_deck) < non_land_target
  /\ best_card_name # None
  /\ iterations <= target_deck_size   \* the count is followed no further
  /\ IF best_card_name = ZeroDivisionError
     THEN pc' = "raised" /\ UNCHANGED <<main_deck, role_counts, ret>>
     ELSE add_card(best_card_name) /\ pc' = pc
  /\ iterations' = iterations + 1
  /\ UNCHANGED <<analyzed_card, lands_diff, file, rows, cards_to_add, failures,
                 result, response, collection, spec, pool, idx,
                 lands_in_deck, basic_land_base, lands_to_add, message>>

\* The iteration that finds no card: break.
SelectBreak ==
  /\ pc = "select"
  /\ total_cards(main_deck) < non_land_target
  /\ best_card_name = None
  /\ pc' = "lands"
  /\ idx' = 1
  /\ UNCHANGED <<analyzed_card, lands_diff, file, rows, cards_to_add, failures,
                 result, response, iterations, collection, spec, pool, main_deck, role_counts, lands_in_deck,
                 basic_land_base, lands_to_add, ret, message>>

\* The while condition fails.
SelectDone ==
  /\ pc = "select"
  /\ ~(total_cards(main_deck) < non_land_target)
  /\ pc' = "lands"
  /\ idx' = 1
  /\ UNCHANGED <<analyzed_card, lands_diff, file, rows, cards_to_add, failures,
                 result, response, iterations, collection, spec, pool, main_deck, role_counts, lands_in_deck,
                 basic_land_base, lands_to_add, ret, message>>

Lower(w) == w

is_basic(card) == \E k \in 1..Len(card.type_line) : Lower(card.type_line[k]) \in BasicTypes

\* Mutant: non-basic lands are taken without the cap of half the land target.
TakesNonBasic_NoCap(card) ==
  /\ "land" \in card.roles
  /\ card.name \notin Keys(main_deck)
  /\ ~is_basic(card)

\* The three nested ifs of land phase part 1.
TakesNonBasic(card) ==
  /\ "land" \in card.roles
  /\ card.name \notin Keys(main_deck)
  /\ ~is_basic(card)
  /\ 2 * Len(lands_in_deck) < spec.target_lands

\* for card in buildable_pool: a card that passes the ifs.
LandAdd ==
  /\ pc = "lands"
  /\ idx <= Len(pool)
  /\ TakesNonBasic(pool[idx])
  /\ add_card(pool[idx].name)
  /\ lands_in_deck' = IF pool[idx].name \in {lands_in_deck[k] : k \in 1..Len(lands_in_deck)}
                      THEN lands_in_deck
                      ELSE Append(lands_in_deck, pool[idx].name)
  /\ idx' = idx + 1
  /\ UNCHANGED <<analyzed_card, lands_diff, file, rows, cards_to_add, failures,
                 result, response, iterations, collection, spec, pool, pc, basic_land_base, lands_to_add, message>>

\* ... and a card that does not.
LandSkip ==
  /\ pc = "lands"
  /\ idx <= Len(pool)
  /\ ~TakesNonBasic(pool[idx])
  /\ idx' = idx + 1
  /\ UNCHANGED <<analyzed_card, lands_diff, file, rows, cards_to_add, failures,
                 result, response, iterations, collection, spec, pool, main_deck, role_counts, pc, lands_in_deck,
                 basic_land_base, lands_to_add, ret, message>>

remaining_lands == spec.target_lands - Len(lands_in_deck)

\* if remaining_lands > 0: generate the basic lands and main_deck.update them.
PlaceBasics ==
  /\ pc = "lands"
  /\ idx > Len(pool)
  /\ remaining_lands > 0
  /\ \E out \in GenerateOutcomes(main_deck, remaining_lands) :
       IF out.raised
       THEN pc' = "raised" /\ UNCHANGED <<basic_land_base, main_deck>>
       ELSE /\ basic_land_base' = out.base
            /\ main_deck' = Update(main_deck, out.base)
            /\ pc' = "message"
  /\ lands_to_add' = remaining_lands
  /\ UNCHANGED <<analyzed_card, lands_diff, file, rows, cards_to_add, failures,
                 result, response, iterations, collection, spec, pool, role_counts, idx, lands_in_deck, ret, message>>

NoBasics ==
  /\ pc = "lands"
  /\ idx > Len(pool)
  /\ ~(remaining_lands > 0)
  /\ pc' = "message"
  /\ UNCHANGED <<analyzed_card, lands_diff, file, rows, cards_to_add, failures,
                 result, response, iterations, collection, spec, pool, main_deck, role_counts, idx, lands_in_deck,
                 basic_land_base, lands_to_add, ret, message>>

\* Mutant: the warning is given only for a deck that is short.
ReturnDecklist_WarnsOnlyWhenShort ==
  /\ pc = "message"
  /\ message' = [text |-> "Deck built successfully", cards |-> total_cards(main_deck),
                 warning |-> total_cards(main_deck) < target_deck_size,
                 sideboard |-> <<>>]
  /\ pc' = "done"
  /\ UNCHANGED <<analyzed_card, lands_diff, file, rows, cards_to_add, failures,
                 result, response, iterations, collection, spec, pool, main_deck, role_counts, idx, lands_in_deck,
                 basic_land_base, lands_to_add, ret>>

\* The message, with the warning when the total is not the format's size.
ReturnDecklist ==
  /\ pc = "message"
  /\ message' = [text |-> "Deck built successfully", cards |-> total_cards(main_deck),
                 warning |-> total_cards(main_deck) # target_deck_size,
                 sideboard |-> <<>>]
  /\ pc' = "done"
  /\ UNCHANGED <<analyzed_card, lands_diff, file, rows, cards_to_add, failures,
                 result, response, iterations, collection, spec, pool, main_deck, role_counts, idx, lands_in_deck,
                 basic_land_base, lands_to_add, ret>>

Next ==
  \/ EmptyPool
  \/ CreateDeck
  \/ SelectCard
  \/ SelectBreak
  \/ SelectDone
  \/ LandAdd
  \/ LandSkip
  \/ PlaceBasics
  \/ NoBasics
  \/ ReturnDecklist

Spec == Init /\ [][Next]_vars

----------------------------------------------------------------------------
(***************************************************************************)
(* DeckConstruction driven directly: any sequence of add_card calls, with  *)
(* any name, on a fresh DeckConstruction, and _generate_basic_land_base    *)
(* called on the deck state they leave, for any lands_to_add in            *)
(* LandRequests.                                                           *)
(***************************************************************************)

\* Names add_card is called with: pool names, other card names, a name of no card.
CallNames == {"Bear", "Bolt", "Edict", "Keep", "Forest", "Unknown"}

AddPoolNames == {"Bear", "Bolt", "Edict", "Keep"}

\* Its formats: the two of the builds and a differently-cased one, which no
\* rule of the code names.
AddFormats == Formats \cup {"Commander"}

\* Owned quantities of its pools: below and above the copy limit of 4.
AddQuantities == {3, 5}

AddPools(ci) ==
  {p \in Pools(ci, MaxPool) :
     \A k \in 1..Len(p) : p[k].name \in AddPoolNames /\ p[k].quantity \in AddQuantities}

InitAdd ==
  /\ spec \in {DeckSpec(f, ci, 2, 3) : f \in AddFormats, ci \in AllIdentities}
  /\ pool \in AddPools(spec.color_identity)
  /\ collection = CollectionOf(pool)
  /\ main_deck = <<>>
  /\ role_counts = NoRoleCounts
  /\ pc = "add"
  /\ idx = 1
  /\ lands_in_deck = <<>>
  /\ basic_land_base = <<>>
  /\ lands_to_add = 0
  /\ ret = None
  /\ iterations = 0
  /\ analyzed_card = NoCard
  /\ lands_diff = 0
  /\ rows = <<>>
  /\ result = NoResult
  /\ response = NoResponse
  /\ file = NoFile
  /\ cards_to_add = <<>>
  /\ failures = <<>>
  /\ message = NoMessage

CallAddCard ==
  /\ pc = "add"
  /\ \E n \in CallNames : add_card(n)
  /\ UNCHANGED <<analyzed_card, lands_diff, file, rows, cards_to_add, failures,
                 result, response, iterations, collection, spec, pool, pc, idx, lands_in_deck, basic_land_base,
                 lands_to_add, message>>

\* The lands_to_add it is called with: the small ones, and the 10 of a
\* ten-land base.
LandRequests == (1..MaxLands) \cup {10}

CallGenerate ==
  /\ pc = "add"
  /\ \E n \in LandRequests :
       /\ lands_to_add' = n
       /\ \E out \in GenerateOutcomes(main_deck, n) :
            IF out.raised
            THEN pc' = "raised" /\ UNCHANGED basic_land_base
            ELSE basic_land_base' = out.base /\ pc' = "generated"
  /\ ret' = None
  /\ UNCHANGED <<analyzed_card, lands_diff, file, rows, cards_to_add, failures,
                 result, response, iterations, collection, spec, pool, main_deck, role_counts, idx, lands_in_deck, message>>

NextAdd == CallAddCard \/ CallGenerate

SpecAdd == InitAdd /\ [][NextAdd]_vars

----------------------------------------------------------------------------
(***************************************************************************)
(* get_buildable_cards, row by row, on any collection of at most MaxRows   *)
(* owned rows.                                                             *)
(***************************************************************************)

\* Longest collection that is enumerated.
MaxRows == 2

\* The legalities of a card: legal everywhere; banned in commander and
\* restricted in modern; legal in commander with no entry for modern; not
\* legal anywhere.
LegalityMaps ==
  {[f \in {"commander", "modern"} |-> "legal"],
   [f \in {"commander", "modern"} |-> IF f = "commander" THEN "banned" ELSE "restricted"],
   [f \in {"commander"} |-> "legal"],
   [f \in {"commander", "modern"} |-> "not_legal"]}

OwnedNames == {"Bear", "Opt", "Edict"}

OwnedQuantities == {1, 3}

OwnedRows ==
  {OwnedRow(n, q, legalities) :
     n \in OwnedNames, q \in OwnedQuantities, legalities \in LegalityMaps}

Collections(maxlen) == UNION {[1..k -> OwnedRows] : k \in 0..maxlen}

\* scryfall_card.legalities.get(spec.format)
legality(row) ==
  IF spec.format \in DOMAIN row.legalities THEN row.legalities[spec.format] ELSE None

\* Mutant: only "legal" passes, a restricted card is dropped.
IsLegal_LegalOnly(row) == legality(row) = "legal"

\* not (legality not in ["legal", "restricted"])
IsLegal(row) == legality(row) \in {"legal", "restricted"}

\* card_color_set.issubset(spec_color_set)
WithinIdentity(row) == row.color_identity \subseteq spec.color_identity

InitFilter ==
  /\ spec \in {DeckSpec(f, ci, 2, 3) : f \in Formats, ci \in AllIdentities}
  /\ collection \in Collections(MaxRows)
  /\ pool = <<>>
  /\ main_deck = <<>>
  /\ role_counts = NoRoleCounts
  /\ pc = "filter"
  /\ idx = 1
  /\ lands_in_deck = <<>>
  /\ basic_land_base = <<>>
  /\ lands_to_add = 0
  /\ ret = None
  /\ iterations = 0
  /\ analyzed_card = NoCard
  /\ lands_diff = 0
  /\ rows = <<>>
  /\ result = NoResult
  /\ response = NoResponse
  /\ file = NoFile
  /\ cards_to_add = <<>>
  /\ failures = <<>>
  /\ message = NoMessage

\* if legality not in ["legal", "restricted"]: continue
FilterSkipIllegal ==
  /\ pc = "filter"
  /\ idx <= Len(collection)
  /\ ~IsLegal(collection[idx])
  /\ idx' = idx + 1
  /\ UNCHANGED <<analyzed_card, lands_diff, file, rows, cards_to_add, failures,
                 result, response, iterations, collection, spec, pool, main_deck, role_counts, pc, lands_in_deck,
                 basic_land_base, lands_to_add, ret, message>>

\* if not card_color_set.issubset(spec_color_set): continue
FilterSkipColour ==
  /\ pc = "filter"
  /\ idx <= Len(collection)
  /\ IsLegal(collection[idx])
  /\ ~WithinIdentity(collection[idx])
  /\ idx' = idx + 1
  /\ UNCHANGED <<analyzed_card, lands_diff, file, rows, cards_to_add, failures,
                 result, response, iterations, collection, spec, pool, main_deck, role_counts, pc, lands_in_deck,
                 basic_land_base, lands_to_add, ret, message>>

\* buildable_pool.append(analyzed_card)
FilterAppend ==
  /\ pc = "filter"
  /\ idx <= Len(collection)
  /\ IsLegal(collection[idx])
  /\ WithinIdentity(collection[idx])
  /\ pool' = Append(pool, AnalyzedCard(collection[idx].name, collection[idx].quantity))
  /\ idx' = idx + 1
  /\ UNCHANGED <<analyzed_card, lands_diff, file, rows, cards_to_add, failures,
                 result, response, iterations, collection, spec, main_deck, role_counts, pc, lands_in_deck,
                 basic_land_base, lands_to_add, ret, message>>

\* return buildable_pool
FilterReturn ==
  /\ pc = "filter"
  /\ idx > Len(collection)
  /\ pc' = "filtered"
  /\ UNCHANGED <<analyzed_card, lands_diff, file, rows, cards_to_add, failures,
                 result, response, iterations, collection, spec, pool, main_deck, role_counts, idx, lands_in_deck,
                 basic_land_base, lands_to_add, ret, message>>

NextFilter == FilterSkipIllegal \/ FilterSkipColour \/ FilterAppend \/ FilterReturn

SpecFilter == InitFilter /\ [][NextFilter]_vars

----------------------------------------------------------------------------
(***************************************************************************)
(* _generate_basic_land_base pass by pass: a deck is put together by        *)
(* add_card calls, the function is called on it with any lands_to_add of   *)
(* LandCounts (negative ones and 0 included), and its reconciliation loop  *)
(* runs one pass per step.                                                 *)
(***************************************************************************)

LandIdentities == {{"G", "R"}, {"W", "U", "B"}}

LandPoolNames == {"Bear", "Bolt", "Edict", "Restoration", "Keep"}

LandQuantities == {1, 3}

LandPools(ci) ==
  {p \in Pools(ci, MaxPool) :
     \A k \in 1..Len(p) : p[k].name \in LandPoolNames /\ p[k].quantity \in LandQuantities}

LandCounts == (0 - MaxLands)..MaxLands

InitLand ==
  /\ spec \in {DeckSpec("modern", ci, 2, 3) : ci \in LandIdentities}
  /\ pool \in LandPools(spec.color_identity)
  /\ collection = CollectionOf(pool)
  /\ main_deck = <<>>
  /\ role_counts = NoRoleCounts
  /\ pc = "deck"
  /\ idx = 1
  /\ lands_in_deck = <<>>
  /\ basic_land_base = <<>>
  /\ lands_to_add = 0
  /\ ret = None
  /\ iterations = 0
  /\ message = NoMessage
  /\ analyzed_card = NoCard
  /\ lands_diff = 0
  /\ rows = <<>>
  /\ result = NoResult
  /\ response = NoResponse
  /\ file = NoFile
  /\ cards_to_add = <<>>
  /\ failures = <<>>

\* An add_card call that puts a copy of a pool card into the deck.
DeckAddCard ==
  /\ pc = "deck"
  /\ \E k \in 1..Len(pool) : ~AddCardRefuses(pool[k].name) /\ add_card(pool[k].name)
  /\ UNCHANGED <<analyzed_card, lands_diff, file, rows, cards_to_add, failures,
                 result, response, iterations, collection, spec,
                 pool, pc, idx, lands_in_deck, basic_land_base, lands_to_add, message>>

\* The call on a deck without coloured pips: the return of line 101 or 102,
\* or the KeyError of line 101.
GenerateFallback ==
  /\ pc = "deck"
  /\ SumQty(pip_counts(main_deck)) = 0
  /\ \E n \in LandCounts :
       /\ lands_to_add' = n
       /\ \E out \in GenerateOutcomes(main_deck, n) :
            IF out.raised
            THEN pc' = "raised" /\ UNCHANGED basic_land_base
            ELSE basic_land_base' = out.base /\ pc' = "generated"
  /\ UNCHANGED <<analyzed_card, lands_diff, file, rows, cards_to_add, failures,
                 result, response, iterations, collection, spec,
                 pool, main_deck, role_counts, idx, lands_in_deck, ret, message>>

\* The call on a deck with coloured pips, up to the while loop: the rounded
\* shares and lands_diff = lands_to_add - temp_land_count.
GenerateAllocate ==
  /\ pc = "deck"
  /\ SumQty(pip_counts(main_deck)) # 0
  /\ \E n \in LandCounts :
       /\ lands_to_add' = n
       /\ basic_land_base' = Allocation(pip_counts(main_deck), n)
       /\ lands_diff' = n - SumQty(Allocation(pip_counts(main_deck), n))
  /\ pc' = "reconcile"
  /\ UNCHANGED <<analyzed_card, file, rows, cards_to_add, failures, result, response, iterations, collection, spec,
                 pool, main_deck, role_counts, idx, lands_in_deck, ret, message>>

\* A pass with lands_diff > 0: one more land of the colour with the most pips.
ReconcileAdd ==
  /\ pc = "reconcile"
  /\ lands_diff > 0
  /\ basic_land_base' =
       Put(basic_land_base, land_map[most_needed_color(pip_counts(main_deck))],
           Get(basic_land_base, land_map[most_needed_color(pip_counts(main_deck))], 0) + 1)
  /\ lands_diff' = lands_diff - 1
  /\ UNCHANGED <<analyzed_card, file, rows, cards_to_add, failures, result, response, iterations, collection, spec,
                 pool, main_deck, role_counts, pc, idx, lands_in_deck, lands_to_add, ret,
                 message>>

\* if any(land_base.values()), and a colour with pips still has a land
CanRemove ==
  /\ \E k \in 1..Len(basic_land_base) : basic_land_base[k].qty # 0
  /\ Removable(basic_land_base, pip_counts(main_deck)) # {}

\* Mutant: the land is removed but lands_diff is not moved.
ReconcileRemove_KeepsDiff ==
  /\ pc = "reconcile"
  /\ lands_diff < 0
  /\ CanRemove
  /\ basic_land_base' =
       Put(basic_land_base,
           land_map[least_needed_color(basic_land_base, pip_counts(main_deck))],
           Get(basic_land_base,
               land_map[least_needed_color(basic_land_base, pip_counts(main_deck))], 0) - 1)
  /\ UNCHANGED <<analyzed_card, lands_diff, file, rows, cards_to_add, failures,
                 result, response, iterations, collection, spec,
                 pool, main_deck, role_counts, pc, idx, lands_in_deck, lands_to_add, ret,
                 message>>

\* A pass with lands_diff < 0 that finds a land to remove: one land less of
\* the colour with the fewest pips among those that have one.
ReconcileRemove ==
  /\ pc = "reconcile"
  /\ lands_diff < 0
  /\ CanRemove
  /\ basic_land_base' =
       Put(basic_land_base,
           land_map[least_needed_color(basic_land_base, pip_counts(main_deck))],
           Get(basic_land_base,
               land_map[least_needed_color(basic_land_base, pip_counts(main_deck))], 0) - 1)
  /\ lands_diff' = lands_diff + 1
  /\ UNCHANGED <<analyzed_card, file, rows, cards_to_add, failures, result, response, iterations, collection, spec,
                 pool, main_deck, role_counts, pc, idx, lands_in_deck, lands_to_add, ret,
                 message>>

\* A pass with lands_diff < 0 that finds none: break, and return dict(land_base).
ReconcileBreak ==
  /\ pc = "reconcile"
  /\ lands_diff < 0
  /\ ~CanRemove
  /\ pc' = "generated"
  /\ UNCHANGED <<analyzed_card, lands_diff, file, rows, cards_to_add, failures,
                 result, response, iterations, collection, spec,
                 pool, main_deck, role_counts, idx, lands_in_deck, basic_land_base,
                 lands_to_add, ret, message>>

\* lands_diff == 0: the loop is left, return dict(land_base).
ReconcileReturn ==
  /\ pc = "reconcile"
  /\ lands_diff = 0
  /\ pc' = "generated"
  /\ UNCHANGED <<analyzed_card, lands_diff, file, rows, cards_to_add, failures,
                 result, response, iterations, collection, spec,
                 pool, main_deck, role_counts, idx, lands_in_deck, basic_land_base,
                 lands_to_add, ret, message>>

NextLand ==
  \/ DeckAddCard
  \/ GenerateFallback
  \/ GenerateAllocate
  \/ ReconcileAdd
  \/ ReconcileRemove
  \/ ReconcileBreak
  \/ ReconcileReturn

SpecLand == InitLand /\ [][NextLand]_vars

----------------------------------------------------------------------------
(***************************************************************************)
(* analyze_card_roles.  A type line or a rules text is the sequence of its *)
(* words (what single spaces separate; a line break is the word NewLine).  *)
(* A substring test for one word looks inside every word of the text       *)
(* (Fragments); a phrase is found where its words follow one another; a    *)
(* regular expression \bA\b.*\bB\b is found where a word A is followed by  *)
(* a word B further on in the same line, "." not matching a line break.    *)
(***************************************************************************)

\* Longest rules text, in phrases of the Vocabulary, that is enumerated.
MaxText == 2

NewLine == "\n"

\* str.lower(), on the words that are not lower-case already.
ToLower(w) ==
  CASE w = "Creature" -> "creature" [] w = "Land" -> "land" [] w = "Island" -> "island"
    [] w = "Basic" -> "basic" [] w = "Artifact" -> "artifact" [] w = "Instant" -> "instant"
    [] w = "Sorcery" -> "sorcery" [] w = "Destroy" -> "destroy" [] w = "Draw" -> "draw"
    [] w = "Exile" -> "exile" [] w = "Counter" -> "counter" [] w = "Add" -> "add"
    [] w = "Search" -> "search" [] w = "Creatures" -> "creatures" [] w = "Target" -> "target"
    [] w = "{T}:" -> "{t}:" [] w = "{G}" -> "{g}"
    [] OTHER -> w

lower(text) == [k \in 1..Len(text) |-> ToLower(text[k])]

\* The strings the code looks for inside a text that occur inside the word.
Fragments(w) ==
  CASE w = "add" -> {"add"}
    [] w = "additional" -> {"add"}
    [] w = "mana" -> {"mana"}
    [] w = "{t}:" -> {"{"}
    [] w = "{g}" -> {"{"}
    [] w = "creature" -> {"creature"}
    [] w = "creatures" -> {"creature"}
    [] w = "land" -> {"land"}
    [] w = "island" -> {"land"}
    [] w = "discards" -> {"discards"}
    [] OTHER -> {}

\* needle in text, for a needle without a space
Contains(text, needle) == \E k \in 1..Len(text) : needle \in Fragments(text[k])

PhraseAt(text, i, phrase) ==
  /\ i + Len(phrase) - 1 <= Len(text)
  /\ \A m \in 1..Len(phrase) : text[i + m - 1] = phrase[m]

\* phrase in text, for a phrase of several words
HasPhrase(text, phrase) == \E i \in 1..Len(text) : PhraseAt(text, i, phrase)

\* No line break from word i to word j.
SameLine(text, i, j) == \A k \in i..j : text[k] # NewLine

\* re.search(r"\bA\b.*\bB\b", text), A and B each one of some words
WordThenWord(text, A, B) ==
  \E i \in 1..Len(text) :
    /\ text[i] \in A
    /\ \E j \in (i + 1)..Len(text) : text[j] \in B /\ SameLine(text, i, j)

\* re.search(r"\bA\b.*\bphrase\b", text)
WordThenPhrase(text, A, phrase) ==
  \E i \in 1..Len(text) :
    /\ text[i] \in A
    /\ \E k \in (i + 1)..Len(text) :
         PhraseAt(text, k, phrase) /\ SameLine(text, i, k + Len(phrase) - 1)

\* re.search(r"\bA\b.*\bB\b.*\bphrase\b", text)
WordWordThenPhrase(text, A, B, phrase) ==
  \E i \in 1..Len(text) :
    /\ text[i] \in A
    /\ \E j \in (i + 1)..Len(text) :
         /\ text[j] \in B
         /\ \E k \in (j + 1)..Len(text) :
              PhraseAt(text, k, phrase) /\ SameLine(text, i, k + Len(phrase) - 1)

\* The five removal_patterns.
MatchesRemoval(text) ==
  \/ WordThenWord(text, {"destroy", "destroys"}, {"target"})
  \/ WordThenWord(text, {"exile", "exiles"}, {"target"})
  \/ WordWordThenPhrase(text, {"deal", "deals"}, {"damage"}, <<"to", "any", "target">>)
  \/ WordWordThenPhrase(text, {"deal", "deals"}, {"damage"}, <<"target", "creature">>)
  \/ WordThenPhrase(text, {"fight", "fights"}, <<"another", "target", "creature">>)

\* The two disruption_patterns; the second has no word boundaries.
MatchesDisruption(text) ==
  \/ WordWordThenPhrase(text, {"counter", "counters"}, {"target"}, <<"spell">>)
  \/ \E i \in 1..Len(text) :
       /\ PhraseAt(text, i, <<"target", "player">>)
       /\ \E k \in (i + 2)..Len(text) :
            "discards" \in Fragments(text[k]) /\ SameLine(text, i, k)

\* \+\d+/\+\d+
PlusCounters == {"+1/+1", "+2/+2"}

\* The roles the rules of lines 221-243 add, before the fallback.
RolesFired(type_line, oracle_text) ==
  (IF Contains(oracle_text, "add")
      /\ (Contains(oracle_text, "{") \/ Contains(oracle_text, "mana"))
   THEN {"ramp"} ELSE {})
  \cup (IF HasPhrase(oracle_text,
                     <<"search", "your", "library", "for", "a", "basic", "land", "card">>)
        THEN {"ramp"} ELSE {})
  \cup (IF WordThenWord(oracle_text, {"draw", "draws"}, {"card", "cards"})
        THEN {"draw"} ELSE {})
  \cup (IF /\ HasPhrase(oracle_text, <<"search", "your", "library", "for", "a", "card">>)
           /\ HasPhrase(oracle_text, <<"put", "it", "into", "your", "hand">>)
        THEN {"tutor"} ELSE {})
  \cup (IF \/ HasPhrase(oracle_text, <<"destroy", "all", "creatures">>)
           \/ HasPhrase(oracle_text, <<"exile", "all", "creatures">>)
        THEN {"board_wipe", "removal"} ELSE {})
  \cup (IF MatchesRemoval(oracle_text) THEN {"removal"} ELSE {})
  \cup (IF MatchesDisruption(oracle_text) THEN {"disruption"} ELSE {})
  \cup (IF \/ HasPhrase(oracle_text, <<"gain", "hexproof">>)
           \/ HasPhrase(oracle_text, <<"gains", "hexproof">>)
           \/ HasPhrase(oracle_text, <<"gain", "indestructible">>)
           \/ HasPhrase(oracle_text, <<"gains", "indestructible">>)
        THEN {"protection"} ELSE {})
  \cup (IF \E c \in PlusCounters :
             HasPhrase(oracle_text, <<"creatures", "you", "control", "get", c>>)
        THEN {"anthem"} ELSE {})
  \cup (IF Contains(type_line, "creature") THEN {"threat"} ELSE {})
  \cup (IF Contains(type_line, "land") THEN {"land"} ELSE {})

\* Mutant: "synergy" is added to every card.
WithFallback_Always(roles) == roles \cup {"synergy"}

\* if not roles: roles.add("synergy")
WithFallback(roles) == IF roles = {} THEN {"synergy"} ELSE roles

\* The first two letters of each role name, as their places in the alphabet:
\* what the comparison of two role names is decided by.
Letters(role) ==
  CASE role = "anthem" -> <<1, 14>> [] role = "board_wipe" -> <<2, 15>>
    [] role = "disruption" -> <<4, 9>> [] role = "draw" -> <<4, 18>>
    [] role = "land" -> <<12, 1>> [] role = "protection" -> <<16, 18>>
    [] role = "ramp" -> <<18, 1>> [] role = "removal" -> <<18, 5>>
    [] role = "synergy" -> <<19, 25>> [] role = "threat" -> <<20, 8>>
    [] role = "tutor" -> <<20, 21>>

\* a < b for two role names
StrLess(a, b) ==
  \/ Letters(a)[1] < Letters(b)[1]
  \/ Letters(a)[1] = Letters(b)[1] /\ Letters(a)[2] < Letters(b)[2]

\* sorted(list(roles))
RECURSIVE sorted(_)
sorted(roles) ==
  IF roles = {} THEN <<>>
  ELSE LET first == CHOOSE r \in roles : \A q \in roles \ {r} : StrLess(r, q)
       IN  <<first>> \o sorted(roles \ {first})

\* oracle_text is None
NoText == <<None>>

\* (card.oracle_text or "")
OrEmpty(text) == IF text = NoText THEN <<>> ELSE text

analyze_card_roles(c) ==
  sorted(WithFallback(RolesFired(lower(c.type_line), lower(OrEmpty(c.oracle_text)))))

\* The type lines and the pieces of rules text the cards are made of.
TypeLines ==
  {<<"Artifact", "Creature">>, <<"Basic", "Land", "Island">>, <<"Land", "Creature">>,
   <<"Instant">>, <<"Sorcery", "//", "Land">>}

Vocabulary ==
  {<<"{T}:", "Add", "{G}">>, <<"additional">>, <<"mana">>,
   <<"Search", "your", "library", "for", "a", "basic", "land", "card">>,
   <<"Search", "your", "library", "for", "a", "card">>,
   <<"put", "it", "into", "your", "hand">>,
   <<"Draw">>, <<"a", "card">>, <<NewLine>>,
   <<"Destroy", "all", "creatures">>, <<"Exile", "all", "creatures">>,
   <<"Target", "creature">>, <<"deals", "3", "damage">>, <<"to", "any", "target">>,
   <<"fights", "another", "target", "creature">>,
   <<"Counter", "target", "spell">>, <<"target", "player", "discards">>,
   <<"gains", "hexproof">>, <<"gain", "indestructible">>,
   <<"creatures", "you", "control", "get", "+1/+1">>}

RECURSIVE Flatten(_)
Flatten(phrases) ==
  IF phrases = <<>> THEN <<>> ELSE phrases[1] \o Flatten(Tail(phrases))

OracleTexts(maxlen) ==
  {Flatten(phrases) : phrases \in UNION {[1..k -> Vocabulary] : k \in 0..maxlen}}
    \cup {NoText}

InitRoles ==
  /\ analyzed_card \in [type_line : TypeLines, oracle_text : OracleTexts(MaxText),
                        roles : {<<>>}]
  /\ spec = DeckSpec("commander", {"W", "B"}, 2, 3)
  /\ collection = <<>>
  /\ pool = <<>>
  /\ main_deck = <<>>
  /\ role_counts = NoRoleCounts
  /\ pc = "analyze"
  /\ idx = 1
  /\ lands_in_deck = <<>>
  /\ basic_land_base = <<>>
  /\ lands_to_add = 0
  /\ ret = None
  /\ iterations = 0
  /\ message = NoMessage
  /\ lands_diff = 0
  /\ rows = <<>>
  /\ result = NoResult
  /\ response = NoResponse
  /\ file = NoFile
  /\ cards_to_add = <<>>
  /\ failures = <<>>

\* card_roles = analyze_card_roles(temp_card_data), and the card built with them
AnalyzeCard ==
  /\ pc = "analyze"
  /\ analyzed_card' = [analyzed_card EXCEPT !.roles = analyze_card_roles(analyzed_card)]
  /\ pc' = "analyzed"
  /\ UNCHANGED <<lands_diff, file, rows, cards_to_add, failures, result, response, iterations, collection, spec, pool,
                 main_deck, role_counts, idx, lands_in_deck, basic_land_base, lands_to_add,
                 ret, message>>

NextRoles == AnalyzeCard

SpecRoles == InitRoles /\ [][NextRoles]_vars

----------------------------------------------------------------------------
(***************************************************************************)
(* POST /collections/upload: handle_collection_upload and                  *)
(* process_collection_csv, on any file of at most MaxCsvRows rows.  A row  *)
(* is the way its processing goes: "ok" (parsed and found), "value_error"  *)
(* (_parse_csv_row raises ValueError), "not_found" (no such card) or       *)
(* "error" (any other exception).  session.commit() may raise.             *)
(***************************************************************************)

MaxCsvRows == 2

RowOutcomes == {"ok", "value_error", "not_found", "error"}

Filenames == {None, "", "cards.txt", "cards.csv"}

\* file.filename.endswith('.csv')
EndsWithCsv(filename) == filename \in {"cards.csv"}

UploadFiles ==
  [filename : Filenames, readable : BOOLEAN,
   rows : UNION {[1..k -> RowOutcomes] : k \in 0..MaxCsvRows}]

NoFailure == [row_num |-> 0, error |-> None]

\* HTTPException(status_code, detail)
HTTPException(status_code, detail) ==
  [class |-> "HTTPException", status_code |-> status_code, detail |-> detail]

\* str(e): of an HTTPException, its status code before its detail
str(e) ==
  IF e.class = "HTTPException"
  THEN [e.detail EXCEPT !.text = <<e.status_code, ": ">> \o @]
  ELSE e.detail

\* except Exception as e: raise HTTPException(status_code=500, detail=str(e)).
\* HTTPException is itself an Exception, so the clause catches it as well.
ExceptException(e) == [status |-> 500, detail |-> str(e)]

InitUpload ==
  /\ file \in UploadFiles
  /\ rows = <<>>
  /\ cards_to_add = <<>>
  /\ failures = <<>>
  /\ result = NoResult
  /\ response = NoResponse
  /\ pc = "upload"
  /\ idx = 1
  /\ analyzed_card = NoCard
  /\ spec = DeckSpec("commander", {"W", "B"}, 2, 3)
  /\ collection = <<>>
  /\ pool = <<>>
  /\ main_deck = <<>>
  /\ role_counts = NoRoleCounts
  /\ lands_in_deck = <<>>
  /\ basic_land_base = <<>>
  /\ lands_to_add = 0
  /\ ret = None
  /\ iterations = 0
  /\ message = NoMessage
  /\ lands_diff = 0

\* if not file.filename or not file.filename.endswith('.csv'): 400
CheckFilename ==
  /\ pc = "upload"
  /\ IF file.filename = None \/ file.filename = "" \/ ~EndsWithCsv(file.filename)
     THEN /\ response' = [status |-> 400,
                          detail |-> [text |-> <<"Please upload a CSV file.">>,
                                      first_error |-> NoFailure]]
          /\ pc' = "responded"
     ELSE /\ pc' = "read"
          /\ UNCHANGED response
  /\ UNCHANGED <<analyzed_card, lands_diff, file, rows, cards_to_add, failures, result,
                 iterations, collection, spec, pool, main_deck, role_counts, idx,
                 lands_in_deck, basic_land_base, lands_to_add, ret, message>>

\* The try of process_collection_csv: rows = list(reader), or the early return.
ReadCsv ==
  /\ pc = "read"
  /\ IF file.readable
     THEN /\ rows' = file.rows
          /\ pc' = "rows"
          /\ UNCHANGED result
     ELSE /\ result' = [collection_id |-> "", total_rows |-> 0, successful_rows |-> 0,
                        failed_rows |-> 0,
                        failures |-> <<[row_num |-> 0, error |-> "read"]>>]
          /\ pc' = "returned"
          /\ UNCHANGED rows
  /\ idx' = 1
  /\ UNCHANGED <<analyzed_card, lands_diff, file, cards_to_add, failures, response,
                 iterations, collection, spec, pool, main_deck, role_counts,
                 lands_in_deck, basic_land_base, lands_to_add, ret, message>>

\* One pass of for i, row in enumerate(rows); row_num = i + 2.
ProcessRow ==
  /\ pc = "rows"
  /\ idx <= Len(rows)
  /\ IF rows[idx] = "ok"
     THEN /\ cards_to_add' = Append(cards_to_add, idx + 1)
          /\ UNCHANGED failures
     ELSE /\ failures' = Append(failures, [row_num |-> idx + 1, error |-> rows[idx]])
          /\ UNCHANGED cards_to_add
  /\ idx' = idx + 1
  /\ UNCHANGED <<analyzed_card, lands_diff, file, rows, result, response, pc,
                 iterations, collection, spec, pool, main_deck, role_counts,
                 lands_in_deck, basic_land_base, lands_to_add, ret, message>>

\* After the loop: the commit, if there is anything to add, and the return.
CommitAndReturn ==
  /\ pc = "rows"
  /\ idx > Len(rows)
  /\ result' = [collection_id |-> "uuid4", total_rows |-> Len(rows),
                successful_rows |-> Len(cards_to_add), failed_rows |-> Len(failures),
                failures |-> failures]
  /\ pc' = "returned"
  /\ UNCHANGED <<analyzed_card, lands_diff, file, rows, cards_to_add, failures, response,
                 iterations, collection, spec, pool, main_deck, role_counts, idx,
                 lands_in_deck, basic_land_base, lands_to_add, ret, message>>

\* session.commit() raises: process_collection_csv does not return, and the
\* handler's except clause answers.
CommitRaises ==
  /\ pc = "rows"
  /\ idx > Len(rows)
  /\ cards_to_add # <<>>
  /\ response' = ExceptException([class |-> "OperationalError", status_code |-> 0,
                                  detail |-> [text |-> <<"commit failed">>,
                                              first_error |-> NoFailure]])
  /\ pc' = "responded"
  /\ UNCHANGED <<analyzed_card, lands_diff, file, rows, cards_to_add, failures, result,
                 iterations, collection, spec, pool, main_deck, role_counts, idx,
                 lands_in_deck, basic_land_base, lands_to_add, ret, message>>

\* The rest of the handler's try block, and its except clause.
Respond ==
  /\ pc = "returned"
  /\ IF result.failed_rows > 0 /\ result.successful_rows = 0
     THEN response' =
            ExceptException(
              HTTPException(422, [text |-> <<"Failed to process CSV. First error: ">>,
                                  first_error |-> result.failures[1]]))
     ELSE response' = [status |-> 200,
                       detail |-> [text |-> <<"Ingested ", result.successful_rows, "/",
                                              result.total_rows, " rows.">>,
                                   first_error |-> NoFailure]]
  /\ pc' = "responded"
  /\ UNCHANGED <<analyzed_card, lands_diff, file, rows, cards_to_add, failures, result,
                 iterations, collection, spec, pool, main_deck, role_counts, idx,
                 lands_in_deck, basic_land_base, lands_to_add, ret, message>>

NextUpload ==
  \/ CheckFilename
  \/ ReadCsv
  \/ ProcessRow
  \/ CommitAndReturn
  \/ CommitRaises
  \/ Respond

SpecUpload == InitUpload /\ [][NextUpload]_vars

----------------------------------------------------------------------------
(***************************************************************************)
(* The claims.  What a claim says about limits, sizes and ownership is     *)
(* written here from its own words, not taken from the definitions above.  *)
(***************************************************************************)

ClaimCopyLimit == IF spec.format = "commander" THEN 1 ELSE 4
ClaimDeckSize == IF spec.format = "commander" THEN 100 ELSE 60

\* The owned quantity of the pool card of that name, 0 if there is none.
Owned(n) ==
  IF \E k \in 1..Len(pool) : pool[k].name = n
  THEN pool[CHOOSE k \in 1..Len(pool) : pool[k].name = n].quantity
  ELSE 0

\* The roles of the pool card of that name, none if there is none.
RolesOf(n) ==
  IF \E k \in 1..Len(pool) : pool[k].name = n
  THEN pool[CHOOSE k \in 1..Len(pool) : pool[k].name = n].roles
  ELSE {}

Returned == pc = "done" /\ pool # <<>>

\* The names _generate_basic_land_base put into main_deck, if it ran.
BasicNames == Keys(basic_land_base)

\* C1 as stated: every entry of the returned main_deck, whichever phase put it
\* there, has a quantity within the format's copy limit (1 for commander, 4
\* otherwise) and within the owned quantity of the card of that name.
C1_EveryEntryWithinLimits ==
  Returned =>
    \A k \in 1..Len(main_deck) :
      /\ main_deck[k].qty <= ClaimCopyLimit
      /\ main_deck[k].qty <= Owned(main_deck[k].name)

\* C1 as amended: every entry of the returned main_deck other than the basic
\* lands the land-base synthesis wrote is within the copy limit and within the
\* owned quantity.
C1_AddedEntriesWithinLimits ==
  Returned =>
    \A k \in 1..Len(main_deck) :
      main_deck[k].name \notin BasicNames =>
        /\ main_deck[k].qty <= ClaimCopyLimit
        /\ main_deck[k].qty <= Owned(main_deck[k].name)

\* C1 witness: a returned deck in which add_card stopped a card at the copy
\* limit though more copies are owned, next to a synthesised basic land whose
\* quantity is above that limit.
C1_Witness ==
  /\ Returned
  /\ \E k \in 1..Len(main_deck) :
       /\ main_deck[k].name \notin BasicNames
       /\ main_deck[k].qty = ClaimCopyLimit
       /\ Owned(main_deck[k].name) > ClaimCopyLimit
  /\ \E k \in 1..Len(main_deck) :
       /\ main_deck[k].name \in BasicNames
       /\ main_deck[k].qty > ClaimCopyLimit

\* C2: the returned main_deck never totals more than the format's deck size
\* (100 for commander, 60 otherwise).
C2_TotalWithinDeckSize ==
  Returned => SumQty(main_deck) <= ClaimDeckSize

\* The sum, over the entries of a deck, of the quantity of those whose pool
\* card carries role r.
RECURSIVE RoleSum(_, _)
RoleSum(deck, r) ==
  IF deck = <<>> THEN 0
  ELSE (IF r \in RolesOf(deck[1].name) THEN deck[1].qty ELSE 0) + RoleSum(Tail(deck), r)

\* C3: at every point of a build after the DeckConstruction is created, each
\* role's count equals the quantity-weighted number of deck entries whose pool
\* card carries the role.
C3_RoleCountsMatchDeck ==
  pc \in {"select", "lands", "message", "done"} /\ pool # <<>> =>
    \A r \in Roles : role_counts[r] = RoleSum(main_deck, r)

\* Addable in the claims' words: current quantity below both the owned
\* quantity and the copy limit.
ClaimAddable(card) ==
  /\ Get(main_deck, card.name, 0) < card.quantity
  /\ Get(main_deck, card.name, 0) < ClaimCopyLimit

NonLandAddable == {k \in 1..Len(pool) : "land" \notin pool[k].roles /\ ClaimAddable(pool[k])}

\* The state in which the selection loop has just been left: the land phase
\* has not looked at a card yet.
LoopJustLeft == pc = "lands" /\ idx = 1

\* C7: the selection loop is left only with the non-land target reached or
\* with no addable non-land card in the pool.
C7_LoopStopsOnlyWhenDone ==
  LoopJustLeft =>
    \/ SumQty(main_deck) >= ClaimDeckSize - spec.target_lands
    \/ NonLandAddable = {}

\* The pool position of the card a selection step added.
AddedAt(k) ==
  /\ Get(main_deck', pool[k].name, 0) = Get(main_deck, pool[k].name, 0) + 1
  /\ \A j \in 1..Len(pool) :
       j # k => Get(main_deck', pool[j].name, 0) = Get(main_deck, pool[j].name, 0)

\* C8: every iteration of the selection loop that adds a card adds a non-land,
\* addable card whose score against the deck state at the start of the
\* iteration is at least that of every addable non-land card, and strictly
\* above that of every such card earlier in the pool's order.
C8_AddsFirstBest ==
  [][pc = "select" /\ main_deck' # main_deck =>
       \E k \in NonLandAddable :
         /\ AddedAt(k)
         /\ \A j \in NonLandAddable : score_card(pool[j]) <= score_card(pool[k])
         /\ \A j \in NonLandAddable : j < k => score_card(pool[j]) < score_card(pool[k])]_vars

\* C8 witness: the first iteration found the threat and the removal spell of a
\* two-card pool tied at the top score (both targets positive, nothing
\* counted yet) and added the first of the two.
C8_Witness ==
  /\ pc = "select"
  /\ Len(pool) = 2
  /\ pool[1].roles = {"removal"}
  /\ pool[2].roles = {"threat"}
  /\ pool[1].mana_value <= 5 /\ pool[2].mana_value <= 5
  /\ spec.target_creatures > 0 /\ spec.target_removal > 0
  /\ main_deck = <<[name |-> pool[1].name, qty |-> 1]>>

\* The land copies of the deck: the non-basic lands land phase part 1 recorded
\* and the basic lands part 2 placed.
RECURSIVE LandCopies(_)
LandCopies(deck) ==
  IF deck = <<>> THEN 0
  ELSE (IF \/ deck[1].name \in {lands_in_deck[k] : k \in 1..Len(lands_in_deck)}
           \/ deck[1].name \in BasicNames
        THEN deck[1].qty ELSE 0) + LandCopies(Tail(deck))

\* C10: after the land phase of a build with a non-empty pool the deck holds
\* exactly target_lands land copies.
C10_LandCopiesEqualTarget ==
  pc \in {"message", "done"} /\ pool # <<>> =>
    LandCopies(main_deck) = spec.target_lands

\* C4: after any sequence of add_card calls every name in main_deck is a pool
\* name and its quantity is between 1 and min(owned quantity, copy limit).
C4_DeckWithinPoolAndLimits ==
  pc = "add" =>
    \A k \in 1..Len(main_deck) :
      /\ \E j \in 1..Len(pool) : pool[j].name = main_deck[k].name
      /\ 1 <= main_deck[k].qty
      /\ main_deck[k].qty <= Owned(main_deck[k].name)
      /\ main_deck[k].qty <= ClaimCopyLimit

\* C4 witness: after a refused call the deck holds one card at the copy limit
\* of 4 with more copies owned, and another at its owned quantity below 4.
C4_Witness ==
  /\ pc = "add"
  /\ ret = "False"
  /\ \E k \in 1..Len(main_deck) :
       main_deck[k].qty = 4 /\ Owned(main_deck[k].name) > 4
  /\ \E k \in 1..Len(main_deck) :
       main_deck[k].qty = Owned(main_deck[k].name) /\ main_deck[k].qty < 4

\* The cases in which the claim has add_card refuse.
ClaimRefused(n) ==
  \/ \A k \in 1..Len(pool) : pool[k].name # n
  \/ Get(main_deck, n, 0) >= Owned(n)
  \/ Get(main_deck, n, 0) >= ClaimCopyLimit

\* C5: add_card returns False and changes nothing when the name is not in the
\* pool or the card's quantity has reached the owned quantity or the copy
\* limit, and returns True in every other case.
C5_RefusesExactlyWhenFull ==
  [][\A n \in CallNames :
       pc = "add" /\ add_card(n) =>
         IF ClaimRefused(n)
         THEN ret' = "False" /\ UNCHANGED <<main_deck, role_counts, pool>>
         ELSE ret' = "True"]_vars

\* C5 witness: a call was refused on a deck that holds a card at the copy
\* limit with more copies owned, while another pool card is still absent.
C5_Witness ==
  /\ pc = "add"
  /\ ret = "False"
  /\ \E k \in 1..Len(main_deck) :
       main_deck[k].qty = ClaimCopyLimit /\ Owned(main_deck[k].name) > ClaimCopyLimit
  /\ \E j \in 1..Len(pool) : pool[j].name \notin Keys(main_deck)

\* C6: a successful add_card(name) raises that name's quantity by 1 and the
\* count of each role the card carries by 1, and changes no other entry, no
\* other role count, the pool or the spec.
C6_SuccessAddsOneCopy ==
  [][\A n \in CallNames :
       pc = "add" /\ add_card(n) /\ ret' = "True" =>
         /\ Get(main_deck', n, 0) = Get(main_deck, n, 0) + 1
         /\ Keys(main_deck') = Keys(main_deck) \cup {n}
         /\ \A m \in Keys(main_deck) \ {n} : Get(main_deck', m, 0) = Get(main_deck, m, 0)
         /\ \A r \in Roles :
              role_counts'[r] = role_counts[r] + (IF r \in RolesOf(n) THEN 1 ELSE 0)
         /\ pool' = pool
         /\ spec' = spec]_vars

\* C6 witness: a successful call added a second copy of a card that carries
\* a role, to a deck that holds another card too.
C6_Witness ==
  /\ pc = "add"
  /\ ret = "True"
  /\ Len(main_deck) >= 2
  /\ \E k \in 1..Len(main_deck) :
       /\ main_deck[k].qty >= 2
       /\ RolesOf(main_deck[k].name) # {}
       /\ \A r \in RolesOf(main_deck[k].name) : role_counts[r] >= 2

\* C9: for lands_to_add > 0 the mapping _generate_basic_land_base returns
\* sums to lands_to_add, in the proportional branch and in the zero-pip one.
C9_LandBaseSumsToRequest ==
  pc = "generated" /\ lands_to_add > 0 => SumQty(basic_land_base) = lands_to_add

\* C9 witness: two colours have pips and the rounded allocation did not sum
\* to the request, so the reconciliation had to act.
C9_Witness ==
  /\ pc = "generated"
  /\ Len(pip_counts(main_deck)) = 2
  /\ SumQty(Allocation(pip_counts(main_deck), lands_to_add)) > lands_to_add

\* C11: a build whose filtered pool is empty creates no DeckConstruction (it
\* is only ever at its start or returned), and returns an empty main_deck, an
\* empty sideboard and the message "No buildable cards found.", for every spec.
C11_EmptyPoolReturnsEmptyDeck ==
  pool = <<>> =>
    /\ pc \in {"start", "done"}
    /\ main_deck = <<>>
    /\ role_counts = NoRoleCounts
    /\ pc = "done" =>
         /\ message.text = "No buildable cards found."
         /\ message.sideboard = <<>>
         /\ ~message.warning

\* C11 witness: a build with an empty pool has returned, for a spec that asks
\* for lands (which a build that went on would have synthesised).
C11_Witness ==
  /\ pc = "done"
  /\ pool = <<>>
  /\ spec.target_lands > 0
  /\ message.text = "No buildable cards found."

\* Scenario B: one creature without a mana cost, owned three times, is the
\* whole pool; the format is "modern", one creature is asked for, no lands,
\* and every other target is 0.
ScenarioB ==
  /\ Len(pool) = 1
  /\ pool[1].quantity = 3
  /\ pool[1].mana_cost = <<>>
  /\ pool[1].roles = {"threat"}
  /\ spec.format = "modern"
  /\ spec.target_creatures = 1
  /\ spec.target_lands = 0
  /\ spec.target_removal = 0 /\ spec.target_ramp = 0
  /\ spec.target_draw = 0 /\ spec.target_board_wipes = 0

\* C12 as stated: in Scenario B the returned main deck holds the creature at
\* quantity 1, the number of copies being capped by the role target.
C12_ScenarioBOneCopy ==
  ScenarioB /\ pc = "done" =>
    main_deck = <<[name |-> pool[1].name, qty |-> 1]>>

\* C12 as amended: in Scenario B the returned main deck holds the creature at
\* quantity 3, its owned quantity: the role target does not cap the copies.
C12_ScenarioBOwnedCopies ==
  ScenarioB /\ pc = "done" =>
    main_deck = <<[name |-> pool[1].name, qty |-> 3]>>

\* C12 witness: the build of Scenario B has returned, with the creature
\* counted beyond its role target and the deck short of the format's size.
C12_Witness ==
  /\ ScenarioB
  /\ pc = "done"
  /\ role_counts["threat"] > spec.target_creatures
  /\ message.warning

\* The number of {c} symbols in the mana costs of the deck's cards, each
\* counted once per copy.
RECURSIVE SymbolCount(_, _)
SymbolCount(cost, c) ==
  IF cost = <<>> THEN 0
  ELSE (IF cost[1] = c THEN 1 ELSE 0) + SymbolCount(Tail(cost), c)

RECURSIVE DeckPips(_, _)
DeckPips(deck, c) ==
  IF deck = <<>> THEN 0
  ELSE deck[1].qty * SymbolCount(AvailableCard(deck[1].name).mana_cost, c)
         + DeckPips(Tail(deck), c)

\* Scenario C: the coloured pips of the chosen cards are white and black
\* only, two white for each black, and 10 basic lands are requested.
ScenarioC ==
  /\ pc = "generated"
  /\ lands_to_add = 10
  /\ DeckPips(main_deck, "B") > 0
  /\ DeckPips(main_deck, "W") = 2 * DeckPips(main_deck, "B")
  /\ \A c \in Colors \ {"W", "B"} : DeckPips(main_deck, c) = 0

\* C13: in Scenario C _generate_basic_land_base returns Plains and Swamp only,
\* 6 or 7 Plains and 3 or 4 Swamp, 10 lands in all.
C13_ScenarioCTwoToOne ==
  ScenarioC =>
    /\ Keys(basic_land_base) = {"Plains", "Swamp"}
    /\ Get(basic_land_base, "Plains", 0) \in {6, 7}
    /\ Get(basic_land_base, "Swamp", 0) \in {3, 4}
    /\ SumQty(basic_land_base) = 10

\* C13 witness: a ten-land base was generated for a deck whose only coloured
\* card costs {W}{W}{B}, held in several copies next to a card without pips.
C13_Witness ==
  /\ ScenarioC
  /\ Get(main_deck, "Edict", 0) >= 2
  /\ Len(main_deck) = 2
  /\ basic_land_base = <<[name |-> "Plains", qty |-> 7], [name |-> "Swamp", qty |-> 3]>>

\* The rows the claim has get_buildable_cards keep.
ClaimKept(row) ==
  /\ spec.format \in DOMAIN row.legalities
  /\ row.legalities[spec.format] \in {"legal", "restricted"}
  /\ \A c \in row.color_identity : c \in spec.color_identity

\* C14: get_buildable_cards returns, in the order of the owned rows, one
\* AnalyzedCard for each row that is legal or restricted in spec.format and
\* whose colour identity is within the spec's, with the row's name and owned
\* quantity, and nothing else; for the spec identity {W,B} no card of colour
\* identity {U} is returned, whatever its legality.
C14_FilterKeepsLegalWithinIdentity ==
  pc = "filtered" =>
    /\ Len(pool) = Len(SelectSeq(collection, ClaimKept))
    /\ \A k \in 1..Len(pool) :
         /\ pool[k].name = SelectSeq(collection, ClaimKept)[k].name
         /\ pool[k].quantity = SelectSeq(collection, ClaimKept)[k].quantity
    /\ spec.color_identity = {"W", "B"} =>
         \A j \in 1..Len(collection) :
           collection[j].color_identity = {"U"} =>
             \A k \in 1..Len(pool) : pool[k].name # collection[j].name

\* C14 witness: of two owned rows the first, a legal card of colour identity
\* {U}, was dropped for the spec identity {W,B}, and the second, a restricted
\* card within the identity, was returned with its quantity.
C14_Witness ==
  /\ pc = "filtered"
  /\ spec.color_identity = {"W", "B"}
  /\ Len(collection) = 2
  /\ collection[1].color_identity = {"U"}
  /\ legality(collection[1]) = "legal"
  /\ legality(collection[2]) = "restricted"
  /\ Len(pool) = 1
  /\ pool[1].name = collection[2].name
  /\ pool[1].quantity = 3

\* The roles the claims give a target, and the target of each.
TargetedRoles == {"removal", "ramp", "draw", "threat", "board_wipe"}

ClaimTarget(r) ==
  CASE r = "removal" -> spec.target_removal
    [] r = "ramp" -> spec.target_ramp
    [] r = "draw" -> spec.target_draw
    [] r = "threat" -> spec.target_creatures
    [] r = "board_wipe" -> spec.target_board_wipes

\* The cards score_card may be handed: those of the pool.
PoolCards == {pool[k] : k \in 1..Len(pool)}

\* C15: in every deck state of the selection loop and for every card of the
\* pool, score_card divides by no role target that is 0, a role whose target
\* is 0 adds no bonus, and the call does not raise.
C15_NoDivisionByZeroTarget ==
  pc = "select" =>
    \A card \in PoolCards :
      /\ \A r \in Divisions(card) : ClaimTarget(r) # 0
      /\ \A r \in TargetedRoles : ClaimTarget(r) = 0 => RoleBonus(card, r) = 0
      /\ ~ScoreRaises(card)

\* C15 witness: the loop has scored and added a creature although no
\* creature is asked for (target 0), and is about to score it again.
C15_Witness ==
  /\ pc = "select"
  /\ spec.target_creatures = 0
  /\ role_counts["threat"] >= 1
  /\ \E k \in 1..Len(pool) : "threat" \in pool[k].roles /\ ClaimAddable(pool[k])

\* The claim's score, multiplied by twice the product of the positive
\* targets so that it is an integer.
ClaimDen ==
  (IF spec.target_removal > 0 THEN spec.target_removal ELSE 1)
    * (IF spec.target_ramp > 0 THEN spec.target_ramp ELSE 1)
    * (IF spec.target_draw > 0 THEN spec.target_draw ELSE 1)
    * (IF spec.target_creatures > 0 THEN spec.target_creatures ELSE 1)
    * (IF spec.target_board_wipes > 0 THEN spec.target_board_wipes ELSE 1)

\* 10 * (1 - c_r / t_r) for a role of the card whose count is below its target.
ClaimBonus(card, r) ==
  IF r \in card.roles /\ role_counts[r] < ClaimTarget(r)
  THEN (20 * ClaimDen * (ClaimTarget(r) - role_counts[r])) \div ClaimTarget(r)
  ELSE 0

ClaimScore(card) ==
  2 * ClaimDen
    + ClaimBonus(card, "removal") + ClaimBonus(card, "ramp") + ClaimBonus(card, "draw")
    + ClaimBonus(card, "threat") + ClaimBonus(card, "board_wipe")
    - (IF card.mana_value > 5 THEN ClaimDen * (card.mana_value - 5) ELSE 0)

\* The score and its consequences, in one deck state.
ScoreAsClaimed ==
  \A card \in PoolCards :
    LET score == score_card(card)
    IN  /\ score = ClaimScore(card)
        /\ \A r \in TargetedRoles \cap card.roles :
             /\ role_counts[r] = 0 /\ ClaimTarget(r) > 0 =>
                  RoleBonus(card, r) = 10 * 2 * ClaimDen
             /\ role_counts[r] >= ClaimTarget(r) => RoleBonus(card, r) = 0
        /\ score_card([card EXCEPT !.roles = @ \cup {"land", "synergy"}]) = score

\* C16: in every deck state of the selection loop score_card returns 1 + the sum, over the card's
\* targeted roles whose count is below target, of 10 * (1 - count / target),
\* minus 0.5 * (mana_value - 5) when mana_value > 5; a role's bonus is 10 at
\* count 0 and 0 from the target on, it strictly decreases with every step
\* that raises a count still below its target, and roles without a target
\* do not change the score.
C16_ScoreFormula ==
  [][pc = "select" =>
       /\ ScoreAsClaimed
       /\ \A card \in PoolCards : \A r \in TargetedRoles \cap card.roles :
            role_counts[r] < ClaimTarget(r) /\ role_counts'[r] > role_counts[r] =>
              RoleBonus(card, r)' < RoleBonus(card, r)]_vars

\* C16 witness: the loop scores a creature of mana value above 5 while the
\* creature count is 1 of a target of 2 and the card costs 12: half of the
\* bonus and a penalty of 3.5 make a score of 1 + 5 - 3.5 = 2.5.
C16_Witness ==
  /\ pc = "select"
  /\ 0 < role_counts["threat"]
  /\ role_counts["threat"] < spec.target_creatures
  /\ \E k \in 1..Len(pool) :
       /\ "threat" \in pool[k].roles
       /\ pool[k].mana_value > 5
       /\ ClaimAddable(pool[k])
       /\ score_card(pool[k]) = 5 * ClaimDen

\* C17: for every format other than exactly "commander" add_card and
\* build_deck use a copy limit of 4 and a deck size of 60, for "commander" 1
\* and 100; the loop of build_deck finds a pool card addable exactly when
\* add_card would accept it, and no entry add_card made exceeds the limit.
C17_FormatRules ==
  pc = "add" =>
    /\ AddCardLimit = (IF spec.format = "commander" THEN 1 ELSE 4)
    /\ LoopLimit = (IF spec.format = "commander" THEN 1 ELSE 4)
    /\ target_deck_size = (IF spec.format = "commander" THEN 100 ELSE 60)
    /\ \A card \in PoolCards : Addable(card) <=> ~AddCardRefuses(card.name)
    /\ \A k \in 1..Len(main_deck) :
         main_deck[k].qty <= (IF spec.format = "commander" THEN 1 ELSE 4)

\* C17 witness: under the format "Commander" add_card has put in four copies
\* of a card owned five times and refused the fifth.
C17_Witness ==
  /\ pc = "add"
  /\ spec.format = "Commander"
  /\ ret = "False"
  /\ \E k \in 1..Len(main_deck) :
       main_deck[k].qty = 4 /\ Owned(main_deck[k].name) = 5

\* C18: every build with a non-empty pool returns normally, with a message
\* that carries the warning exactly when the sum of the returned main_deck
\* differs from the format's deck size (100 for commander, 60 otherwise) and
\* that states that sum as the card count.
C18_WarningIffWrongSize ==
  /\ pool # <<>> => pc # "raised"
  /\ Returned =>
       /\ message.text = "Deck built successfully"
       /\ message.warning <=> SumQty(main_deck) # ClaimDeckSize
       /\ message.cards = SumQty(main_deck)

\* C18 witness: a build has returned a deck of exactly the format's size,
\* spells and synthesised lands, without the warning.
C18_Witness ==
  /\ Returned
  /\ ~message.warning
  /\ message.cards = ClaimDeckSize
  /\ BasicNames # {}
  /\ \E k \in 1..Len(main_deck) : "threat" \in RolesOf(main_deck[k].name)

\* The selection loop's longest run in the claims' words.
ClaimLoopBound ==
  IF ClaimDeckSize - spec.target_lands > 0 THEN ClaimDeckSize - spec.target_lands ELSE 0

\* C19: every build (targets non-negative, colour identity within WUBRG, every
\* card with a role) runs to completion and returns: no step of it reaches an
\* error state, its selection loop never runs more iterations than the
\* non-land target, its land loop never leaves the pool, and what it ends
\* with is a returned Decklist.
C19_BuildCompletes ==
  /\ pc # "raised"
  /\ iterations <= ClaimLoopBound
  /\ idx <= Len(pool) + 1
  /\ pc = "done" => message.text # None

\* C19 witness: a build has returned after its loop scored and selected
\* cards of two colours and the rounded land allocation, not summing to the
\* lands asked for, had to be reconciled.
C19_Witness ==
  /\ Returned
  /\ Len(basic_land_base) = 2
  /\ SumQty(Allocation(pip_counts(main_deck), lands_to_add)) # lands_to_add
  /\ SumQty(basic_land_base) = lands_to_add

\* C20: build_deck is deterministic: where a build hands the same deck and
\* the same number of lands to _generate_basic_land_base, the call can end in
\* one way only, so that any two builds of the same pool and spec return the
\* same main_deck and message, a zero-pip fallback for a colour identity of
\* two or more colours included.
C20_BuildIsDeterministic ==
  pc = "lands" /\ idx > Len(pool) /\ spec.target_lands - Len(lands_in_deck) > 0 =>
    \A a, b \in GenerateOutcomes(main_deck, spec.target_lands - Len(lands_in_deck)) :
      a = b

\* The basic land the claims give each colour.
ClaimBasic(c) ==
  CASE c = "W" -> "Plains" [] c = "U" -> "Island" [] c = "B" -> "Swamp"
    [] c = "R" -> "Mountain" [] c = "G" -> "Forest"

\* No card of the deck carries a coloured mana symbol.
NoColouredSymbol == \A c \in Colors : DeckPips(main_deck, c) = 0

\* C21: when no card of the deck carries a coloured mana symbol (no mana
\* cost, or a cost without a coloured symbol), the call of
\* _generate_basic_land_base that ends land phase part 2 does not raise and
\* returns one entry holding all the lands asked for: Wastes for an empty
\* colour identity, otherwise the basic land of a colour of the identity.
C21_ZeroPipsSingleBasic ==
  [][pc = "lands" /\ pc' # "lands" /\ spec.target_lands - Len(lands_in_deck) > 0
       /\ NoColouredSymbol =>
       /\ pc' = "message"
       /\ Len(basic_land_base') = 1
       /\ basic_land_base'[1].qty = spec.target_lands - Len(lands_in_deck)
       /\ IF spec.color_identity = {}
          THEN basic_land_base'[1].name = "Wastes"
          ELSE \E c \in spec.color_identity : basic_land_base'[1].name = ClaimBasic(c)]_vars

\* C21 witness: a build whose deck holds only a card costing {12}, a cost
\* without a coloured symbol, was given the Mountains of its red-green
\* identity for all its lands.
C21_Witness ==
  /\ pc = "message"
  /\ spec.color_identity = {"G", "R"}
  /\ \E k \in 1..Len(main_deck) :
       /\ InAvailablePool(main_deck[k].name)
       /\ AvailableCard(main_deck[k].name).mana_cost = <<"12">>
  /\ basic_land_base = <<[name |-> "Mountain", qty |-> lands_to_add]>>
  /\ lands_to_add >= 3

\* The type line names none of the five basic land types.
ClaimNonBasic(c) ==
  \A k \in 1..Len(c.type_line) :
    c.type_line[k] \notin {"plains", "island", "swamp", "mountain", "forest"}

\* The non-basic lands land phase part 1 has added so far.
NonBasicsAdded == Len(lands_in_deck)

\* C22: a step of land phase part 1 that adds a card adds one copy of a pool
\* card tagged "land" whose name was not in main_deck, whose type line names
\* no basic land type, and only while the non-basic lands added so far are
\* fewer than target_lands / 2; so at most ceil(target_lands / 2) are added,
\* none for target_lands = 0, never more than target_lands, each at one copy.
C22_NonBasicLandsCapped ==
  [][pc = "lands" /\ pc' = "lands" =>
       /\ main_deck' # main_deck =>
            /\ "land" \in pool[idx].roles
            /\ pool[idx].name \notin Keys(main_deck)
            /\ ClaimNonBasic(pool[idx])
            /\ 2 * NonBasicsAdded < spec.target_lands
            /\ main_deck' = Append(main_deck, [name |-> pool[idx].name, qty |-> 1])
            /\ NonBasicsAdded' = NonBasicsAdded + 1
       /\ 2 * NonBasicsAdded' <= spec.target_lands + 1
       /\ spec.target_lands = 0 => NonBasicsAdded' = 0
       /\ NonBasicsAdded' <= spec.target_lands
       /\ \A k \in 1..Len(lands_in_deck') : Get(main_deck', lands_in_deck'[k], 0) = 1]_vars

\* C22 witness: of the two non-basic lands of a pool the first was added and
\* the second was not, one land being all the spec asks for.
C22_Witness ==
  /\ pc = "done"
  /\ spec.target_lands = 1
  /\ Len(pool) = 2
  /\ "land" \in pool[1].roles /\ "land" \in pool[2].roles
  /\ ClaimNonBasic(pool[1]) /\ ClaimNonBasic(pool[2])
  /\ lands_in_deck = <<pool[1].name>>
  /\ main_deck = <<[name |-> pool[1].name, qty |-> 1]>>

\* C23: called with a negative lands_to_add, _generate_basic_land_base treats
\* it as 0: the mapping it returns has no negative count and sums to 0.
C23_NegativeRequestClamped ==
  pc = "generated" /\ lands_to_add < 0 =>
    /\ \A k \in 1..Len(basic_land_base) : basic_land_base[k].qty >= 0
    /\ SumQty(basic_land_base) = 0

\* The pass-by-pass loop returns what the loop evaluated in one go returns.
LandBaseAgrees ==
  pc = "generated" /\ SumQty(pip_counts(main_deck)) # 0 =>
    basic_land_base = ProportionalLandBase(pip_counts(main_deck), lands_to_add)

\* The difference between the lands asked for and the lands allocated.
ClaimDifference == lands_to_add - SumQty(basic_land_base)

Abs(x) == IF x < 0 THEN 0 - x ELSE x

\* The colours with pips that still have at least one land allocated.
ClaimRemovable ==
  {c \in Colors : DeckPips(main_deck, c) > 0 /\ Get(basic_land_base, ClaimBasic(c), 0) >= 1}

\* C26: the reconciliation loop terminates for every pip distribution and
\* every lands_to_add, negative ones and 0 included: every pass either moves
\* the difference between the lands asked for and the lands allocated one
\* step closer to 0 and stays in the loop, or leaves the loop, with the
\* difference at 0 or because no colour with pips has a land left to remove;
\* a removal is applied only to a colour whose allocation is at least 1, and
\* for lands_to_add >= 0 no allocation becomes negative.
C26_ReconciliationTerminates ==
  [][pc = "reconcile" =>
       /\ lands_diff = ClaimDifference
       /\ \/ pc' = "reconcile" /\ Abs(ClaimDifference') = Abs(ClaimDifference) - 1
          \/ pc' = "generated" /\ ClaimDifference = 0 /\ basic_land_base' = basic_land_base
          \/ /\ pc' = "generated" /\ ClaimDifference < 0 /\ basic_land_base' = basic_land_base
             /\ ClaimRemovable = {}
       /\ \A c \in Colors :
            Get(basic_land_base', ClaimBasic(c), 0) < Get(basic_land_base, ClaimBasic(c), 0) =>
              Get(basic_land_base, ClaimBasic(c), 0) >= 1
       /\ lands_to_add >= 0 =>
            \A k \in 1..Len(basic_land_base') : basic_land_base'[k].qty >= 0]_vars

\* C26 witness: the loop was left with lands still missing from a negative
\* request, no colour having a land to give up.
C26_Witness ==
  /\ pc = "generated"
  /\ lands_to_add < 0
  /\ Len(basic_land_base) = 2
  /\ ClaimDifference < 0
  /\ \A k \in 1..Len(basic_land_base) : basic_land_base[k].qty = 0

\* The lands that were removed: a positive request ended the loop after a
\* removal from a rounded allocation that summed to more than was asked for.
C26_RemovalReached ==
  /\ pc = "generated"
  /\ lands_to_add > 0
  /\ SumQty(Allocation(pip_counts(main_deck), lands_to_add)) > lands_to_add
  /\ SumQty(basic_land_base) = lands_to_add

\* The pips of colour c the claim counts: those of the deck's cards that are
\* not tagged "land", once per copy.
RECURSIVE NonLandPips(_, _)
NonLandPips(deck, c) ==
  IF deck = <<>> THEN 0
  ELSE (IF "land" \in RolesOf(deck[1].name) THEN 0
        ELSE deck[1].qty * SymbolCount(AvailableCard(deck[1].name).mana_cost, c))
         + NonLandPips(Tail(deck), c)

\* C27: the pip count _generate_basic_land_base computes for each colour is
\* the number of that colour's symbols in the mana costs of the deck's
\* non-land cards, once per copy; a deck card tagged "land" adds nothing,
\* even when it has a mana cost.
C27_PipsOfNonLandCardsOnly ==
  pc \in {"reconcile", "generated"} =>
    \A c \in Colors : Get(pip_counts(main_deck), c, 0) = NonLandPips(main_deck, c)

\* C28: every entry of the main_deck build_deck returns has a quantity of at
\* least 1, the basic lands of the proportional allocation included.
C28_NoEmptyEntries ==
  pc = "done" => \A k \in 1..Len(main_deck) : main_deck[k].qty >= 1

\* C25: the selection loop terminates: every iteration that selects a card
\* adds it (add_card returns True for the card the loop's own test let
\* through), which raises the deck total by exactly 1, so that the loop has
\* run at most max(0, deck size - target_lands) iterations when it ends, by
\* its condition or by the break of an iteration that selects nothing.
C25_SelectionLoopTerminates ==
  [][pc = "select" =>
       /\ iterations = SumQty(main_deck)
       /\ iterations' # iterations =>
            /\ pc' = "select"
            /\ ret' = "True"
            /\ SumQty(main_deck') = SumQty(main_deck) + 1
            /\ iterations' = iterations + 1
            /\ iterations' <= ClaimLoopBound
       /\ pc' # "select" =>
            /\ pc' = "lands"
            /\ main_deck' = main_deck
            /\ iterations <= ClaimLoopBound]_vars

\* C25 witness: the loop has ended by its condition after as many iterations
\* as the non-land target allows, with cards still addable.
C25_Witness ==
  /\ LoopJustLeft
  /\ iterations = ClaimLoopBound
  /\ iterations >= 2
  /\ NonLandAddable # {}

\* ... and by the break, short of the target, after adding every copy it could.
C25_BreakReached ==
  /\ LoopJustLeft
  /\ iterations >= 4
  /\ iterations < ClaimLoopBound
  /\ NonLandAddable = {}

Min(a, b) == IF a < b THEN a ELSE b

\* The copies of non-land pool cards that can be added: for each card the
\* lesser of its owned quantity and the copy limit.
RECURSIVE AddableNonLandCopies(_)
AddableNonLandCopies(p) ==
  IF p = <<>> THEN 0
  ELSE (IF "land" \in p[1].roles THEN 0 ELSE Min(p[1].quantity, ClaimCopyLimit))
         + AddableNonLandCopies(Tail(p))

\* The copies of non-land pool cards the deck holds.
RECURSIVE NonLandCopies(_)
NonLandCopies(deck) ==
  IF deck = <<>> THEN 0
  ELSE (IF RolesOf(deck[1].name) # {} /\ "land" \notin RolesOf(deck[1].name)
        THEN deck[1].qty ELSE 0) + NonLandCopies(Tail(deck))

\* C29: when target_lands is at most the format's deck size and the pool
\* holds enough addable non-land copies for the selection loop to reach the
\* non-land target (and the loop did reach it), the returned main_deck sums
\* to exactly the deck size (100 for commander, 60 otherwise) and the
\* message carries no warning.
C29_FullDeckWhenPoolSuffices ==
  /\ Returned
  /\ spec.target_lands <= ClaimDeckSize
  /\ AddableNonLandCopies(pool) >= ClaimDeckSize - spec.target_lands
  /\ NonLandCopies(main_deck) = ClaimDeckSize - spec.target_lands
  => SumQty(main_deck) = ClaimDeckSize /\ ~message.warning

\* The role names in alphabetical order.
ClaimOrder ==
  <<"anthem", "board_wipe", "disruption", "draw", "land", "protection", "ramp",
    "removal", "synergy", "threat", "tutor">>

ClaimPlace(role) == CHOOSE k \in 1..Len(ClaimOrder) : ClaimOrder[k] = role

\* The roles of the list, as a set.
ListedRoles == {analyzed_card.roles[k] : k \in 1..Len(analyzed_card.roles)}

\* Some word of the lower-cased type line contains the string.
TypeLineContains(needle) ==
  \E k \in 1..Len(analyzed_card.type_line) :
    needle \in Fragments(ToLower(analyzed_card.type_line[k]))

\* C24: for every type line and rules text analyze_card_roles returns a
\* non-empty list of role names in strictly ascending (so duplicate-free)
\* alphabetical order; "synergy" is in it exactly when no rule fired, and then
\* alone; "threat" exactly when the type line contains "creature"; "land"
\* exactly when it contains "land"; and "removal" whenever "board_wipe" is.
C24_RolesWellFormed ==
  pc = "analyzed" =>
    /\ Len(analyzed_card.roles) >= 1
    /\ ListedRoles \subseteq {ClaimOrder[k] : k \in 1..Len(ClaimOrder)}
    /\ \A i, j \in 1..Len(analyzed_card.roles) :
         i < j => ClaimPlace(analyzed_card.roles[i]) < ClaimPlace(analyzed_card.roles[j])
    /\ "synergy" \in ListedRoles <=>
         RolesFired(lower(analyzed_card.type_line),
                    lower(OrEmpty(analyzed_card.oracle_text))) = {}
    /\ "synergy" \in ListedRoles => ListedRoles = {"synergy"}
    /\ "threat" \in ListedRoles <=> TypeLineContains("creature")
    /\ "land" \in ListedRoles <=> TypeLineContains("land")
    /\ "board_wipe" \in ListedRoles => "removal" \in ListedRoles

\* C24 witness: a creature that destroys all creatures got the three roles
\* board_wipe, removal and threat, in that order.
C24_Witness ==
  /\ pc = "analyzed"
  /\ analyzed_card.type_line = <<"Artifact", "Creature">>
  /\ analyzed_card.roles = <<"board_wipe", "removal", "threat">>

\* ... and an instant without rules text got "synergy" alone.
C24_FallbackReached ==
  /\ pc = "analyzed"
  /\ analyzed_card.type_line = <<"Instant">>
  /\ analyzed_card.oracle_text = NoText
  /\ analyzed_card.roles = <<"synergy">>

\* C30: once an uploaded CSV has been processed, the endpoint answers 422 with
\* the first row failure if every row failed (failed_rows > 0 and
\* successful_rows = 0); it answers 500 only if processing raised, that is
\* returned no result; and it answers 200 only if at least one row succeeded
\* or no row failed.
C30_AllRowsFailedIs422 ==
  pc = "responded" /\ response.status # 400 =>
    /\ result # NoResult /\ result.failed_rows > 0 /\ result.successful_rows = 0 =>
         /\ response.status = 422
         /\ response.detail.first_error = result.failures[1]
    /\ response.status = 500 => result = NoResult
    /\ response.status = 200 =>
         result.successful_rows >= 1 \/ result.failed_rows = 0

\* The handler never answers 422 (holds: the except clause turns it into 500).
UnprocessableNeverAnswered == response.status # 422

\* An upload whose rows all failed has been answered.
AllRowsFailedAnswered ==
  /\ pc = "responded"
  /\ result # NoResult /\ result.failed_rows > 0 /\ result.successful_rows = 0

====
